---- MODULE Spec2Model ----
(***************************************************************************)
(* Model of the YAML flattening engine of terraform-provider-yamlflattener *)
(* (internal/flattener, internal/utils, internal/provider).                *)
(*                                                                         *)
(* Go strings are modelled as sequences of one-byte characters, each       *)
(* character being a TLA+ string atom ("a", ".", "[", ...).  The bytes     *)
(* that have no printable spelling are named: LF (0x0A), NUL (0x00),       *)
(* SP (0x20), BSL (backslash).                                             *)
(***************************************************************************)
EXTENDS Integers, Sequences, FiniteSets, TLC

VARIABLES
    entry,        \* entry point under execution
    f,            \* the Flattener instance (its configuration fields)
    anchors,      \* anchor name -> node, the targets of yaml.Node.Alias
    input,        \* the *yaml.Node handed to FlattenYAMLNode
    pc,           \* position of the calling goroutine
    stack,        \* call stack of the recursive traversal
    result,       \* the result container being filled
    err,          \* error value travelling up the call stack
    visited,      \* number of flattenNodeWithDepth calls made so far
    ret,          \* what the entry point returned: <<container, error>>
    runs,         \* number of completed runs on the same input
    first,        \* return value of the first completed run
    yamlContent,  \* the text the caller supplies
    arg,          \* the yamlContent parameter of FlattenYAMLString
    sanitized,    \* the sanitized text the parsing goroutine captured
    worker,       \* position of the parsing goroutine
    done,         \* whether the done channel is closed
    yamlNode,     \* the yamlNode variable the goroutine unmarshals into
    perr,         \* the err variable the goroutine assigns
    parserCalls,  \* the texts yaml.Unmarshal has been called with
    filePath,     \* the path the caller supplies
    fsObject,     \* what the file system holds at the paths that are no directory
    cleanPath,    \* the cleanPath variable of FlattenYAMLFile
    fsLog,        \* the file-system calls made so far, in order
    data,         \* the data source's configuration (flattenDataSourceModel)
    providerData, \* the provider configuration the data source holds, if any
    runResp,      \* the function's response (function.RunResponse)
    readResp,     \* the data source's response (datasource.ReadResponse)
    orderedMap,   \* an OrderedMap a caller writes to directly
    sets,         \* the Set calls made on orderedMap so far: <<key, value>>, in order
    sanitizer,    \* which sanitizeKey a caller applies: that of flattener.go or the older one
    keyTrace,     \* a key and what sanitizeKey made of it, call after call
    reader,       \* the goroutine of readFileWithTimeout: where it stands
    readDone,     \* the channel `done` of readFileWithTimeout is closed
    readContent,  \* the variable `content` the reading goroutine writes
    readErr,      \* the variable `err` the reading goroutine writes
    sent          \* the error the goroutine of ValidateYAML is sending on `done`

vars == <<entry, f, anchors, input, pc, stack, result, err, visited, ret, runs, first,
          yamlContent, arg, sanitized, worker, done, yamlNode, perr, parserCalls,
          filePath, fsObject, cleanPath, fsLog, data, providerData, runResp, readResp,
          orderedMap, sets, sanitizer, keyTrace, reader, readDone, readContent, readErr, sent>>

----------------------------------------------------------------------------
(* Characters and strings *)

LF  == "LF"
NUL == "NUL"
SP  == "SP"
BSL == "BSL"

EmptyString == <<>>

\* strings.ReplaceAll(s, old, new) for a one-character old
RECURSIVE ReplaceAll(_, _, _)
ReplaceAll(s, old, new) ==
    IF s = <<>> THEN <<>>
    ELSE IF Len(s) = 1 THEN (IF s[1] = old THEN new ELSE s)
    ELSE LET mid == Len(s) \div 2
         IN  ReplaceAll(SubSeq(s, 1, mid), old, new)
                \o ReplaceAll(SubSeq(s, mid + 1, Len(s)), old, new)

\* strings.Contains(s, sub)
Contains(s, sub) ==
    \E i \in 1..(Len(s) - Len(sub) + 1) : SubSeq(s, i, i + Len(sub) - 1) = sub

Digit(n) == CASE n = 0 -> "0" [] n = 1 -> "1" [] n = 2 -> "2" [] n = 3 -> "3" [] n = 4 -> "4"
              [] n = 5 -> "5" [] n = 6 -> "6" [] n = 7 -> "7" [] n = 8 -> "8" [] n = 9 -> "9"

\* fmt's %d of a non-negative int
RECURSIVE Itoa(_)
Itoa(n) == IF n < 10 THEN <<Digit(n)>> ELSE Itoa(n \div 10) \o <<Digit(n % 10)>>

----------------------------------------------------------------------------
(* yaml.Node *)

Node(kind, tag, value, content, alias) ==
    [Kind |-> kind, Tag |-> tag, Value |-> value, Content |-> content, Alias |-> alias]

NoAlias == "nil"

ZeroNode         == Node("0", "", <<>>, <<>>, NoAlias)
DocumentNode(c)  == Node("DocumentNode", "", <<>>, c, NoAlias)
MappingNode(c)   == Node("MappingNode", "!!map", <<>>, c, NoAlias)
SequenceNode(c)  == Node("SequenceNode", "!!seq", <<>>, c, NoAlias)
ScalarNode(t, v) == Node("ScalarNode", t, v, <<>>, NoAlias)
AliasNode(a)     == Node("AliasNode", "", <<>>, <<>>, a)

----------------------------------------------------------------------------
(* Errors: the code returns fmt.Errorf values; the model keeps their kind *)

NoErr == "nil"
Nil   == "nil"

ErrNilNode      == "cannot flatten nil YAML node"
ErrDepthLimit   == "maximum nesting depth exceeded"
ErrSizeLimit    == "maximum result size exceeded"
ErrNonScalarKey == "non-scalar key in YAML mapping"
ErrEmptyContent == "YAML content cannot be empty"
ErrContentSize  == "YAML content size exceeds maximum allowed size"
ErrParseTimeout == "YAML parsing timed out, content may be too complex"
ErrParse        == "failed to parse YAML content"
ErrEmptyPath    == "file path cannot be empty"
ErrTraversal    == "file path contains invalid directory traversal patterns"
ErrFileAccess   == "failed to access YAML file"
ErrFileSize     == "YAML file size exceeds maximum allowed size"
ErrFileRead     == "failed to read YAML file"

----------------------------------------------------------------------------
(* OrderedMap (ordered_map.go) *)

NewOrderedMap == [keys |-> <<>>, values |-> <<>>]

SetAppending(om, key, value) ==
    [keys   |-> Append(om.keys, key),
     values |-> [k \in (DOMAIN om.values) \cup {key} |->
                    IF k = key THEN value ELSE om.values[k]]]

SetReordering(om, key, value) ==
    [keys   |-> SelectSeq(om.keys, LAMBDA k : k # key) \o <<key>>,
     values |-> [k \in (DOMAIN om.values) \cup {key} |->
                    IF k = key THEN value ELSE om.values[k]]]

Set(om, key, value) ==
    [keys   |-> IF key \in DOMAIN om.values THEN om.keys ELSE Append(om.keys, key),
     values |-> [k \in (DOMAIN om.values) \cup {key} |->
                    IF k = key THEN value ELSE om.values[k]]]

Get(om, key) == IF key \in DOMAIN om.values THEN <<om.values[key], TRUE>> ELSE <<EmptyString, FALSE>>

Keys(om) == om.keys

OMLen(om) == Len(om.keys)

\* ToMap: the unordered key -> value projection
ToMap(om) == [k \in {om.keys[i] : i \in 1..Len(om.keys)} |-> om.values[k]]

----------------------------------------------------------------------------
(* Flattener helpers (flattener.go) *)

MaxYAMLSize == 10 * 1024 * 1024

MaxNestingDepth == 100

MaxResultSize == 100000

\* NewFlattener(): the default limits, new lines left as they are
NewFlattener ==
    [MaxNestingDepth |-> MaxNestingDepth, MaxResultSize |-> MaxResultSize,
     MaxYAMLSize |-> MaxYAMLSize, EscapeNewlines |-> FALSE]

\* NewFlattenerWithOptions(escapeNewlines)
NewFlattenerWithOptions(escapeNewlines) == [NewFlattener EXCEPT !.EscapeNewlines = escapeNewlines]

maxKeyLength == 1000

\* a validateDepthAndSize that checks the depth alone
validateDepthOnly(depth, resultSize) ==
    IF depth > f.MaxNestingDepth THEN ErrDepthLimit ELSE NoErr

validateDepthAndSize(depth, resultSize) ==
    IF depth > f.MaxNestingDepth THEN ErrDepthLimit
    ELSE IF resultSize >= f.MaxResultSize THEN ErrSizeLimit
    ELSE NoErr

\* a buildPrefix that joins parent and key without the dot
buildPrefixNoDot(prefix, key) == prefix \o key

buildPrefix(prefix, key) ==
    IF prefix = EmptyString THEN key ELSE prefix \o <<".">> \o key

sanitizeKey(key) ==
    LET k == ReplaceAll(key, NUL, <<>>)
    IN  IF Len(k) > maxKeyLength THEN SubSeq(k, 1, maxKeyLength) ELSE k

\* the bytes of the keys modelled: "a" and the space, the control bytes NUL,
\* LF and DEL, the two bytes of U+00E9 and the three bytes of U+FFFD
DEL == "DEL"

ERune == <<"C3", "A9">>

RuneError == <<"EF", "BF", "BD">>

\* the bytes of 0x80 and above
HighBytes == {"C3", "A9", "EF", "BF", "BD"}

\* r < 0x20 || (r >= 0x7F && r <= 0x9F), for the runes of one byte
IsControl(c) == c \in {NUL, LF, DEL}

\* utf8 decoding: a rune of two or three bytes starts at byte i
Starts2(s, i) ==
    i >= 1 /\ i + 1 <= Len(s) /\ s[i] = ERune[1] /\ s[i + 1] = ERune[2]

Starts3(s, i) ==
    /\ i >= 1 /\ i + 2 <= Len(s)
    /\ s[i] = RuneError[1] /\ s[i + 1] = RuneError[2] /\ s[i + 2] = RuneError[3]

\* byte i continues a rune that starts before it
Continues(s, i) == Starts2(s, i - 1) \/ Starts3(s, i - 1) \/ Starts3(s, i - 2)

\* strings.Map with the mapping of sanitizeKey: what is written for the rune
\* at byte i (nothing for a control character, U+FFFD for an invalid byte)
MapRune(s, i) ==
    IF s[i] \notin HighBytes
    THEN IF IsControl(s[i]) THEN <<>> ELSE <<s[i]>>
    ELSE IF Continues(s, i) THEN <<>>
    ELSE IF Starts2(s, i) THEN ERune
    ELSE RuneError

\* strings.Map over the bytes lo..hi of s
RECURSIVE MapRunes(_, _, _)
MapRunes(s, lo, hi) ==
    IF lo > hi THEN <<>>
    ELSE IF lo = hi THEN MapRune(s, lo)
    ELSE LET mid == (lo + hi) \div 2
         IN  MapRunes(s, lo, mid) \o MapRunes(s, mid + 1, hi)

\* white space as strings.TrimSpace sees it, among the bytes modelled
IsTrimmed(c) == c \in {SP, LF}

\* a TrimSpace that removes every white space, embedded ones included
TrimSpaceEverywhere(s) == SelectSeq(s, LAMBDA c : ~IsTrimmed(c))

\* strings.TrimSpace: the bytes from the first to the last that is no white
\* space
RECURSIVE TrimSpaceOfKey(_)
TrimSpaceOfKey(s) ==
    IF s = <<>> THEN s
    ELSE IF IsTrimmed(s[1]) THEN TrimSpaceOfKey(Tail(s))
    ELSE IF IsTrimmed(s[Len(s)]) THEN TrimSpaceOfKey(SubSeq(s, 1, Len(s) - 1))
    ELSE s

\* sanitizeKey of the older flattener: control characters removed, white
\* space trimmed, cut at maxKeyLength bytes
sanitizeKeyMap(key) ==
    LET k == TrimSpaceOfKey(MapRunes(key, 1, Len(key)))
    IN  IF Len(k) > maxKeyLength THEN SubSeq(k, 1, maxKeyLength) ELSE k

\* an indexPrefix that counts the items from 1
indexPrefixFromOne(prefix, i) == prefix \o <<"[">> \o Itoa(i + 1) \o <<"]">>

\* fmt.Sprintf("%s[%d]", prefix, i)
indexPrefix(prefix, i) == prefix \o <<"[">> \o Itoa(i) \o <<"]">>

StrNull  == <<"n", "u", "l", "l">>
StrTilde == <<"~">>

ScalarTextFolded(node) == ReplaceAll(node.Value, LF, <<SP>>)

\* the ScalarNode case of flattenNodeWithDepth: the text written for a scalar
ScalarText(node) ==
    IF node.Tag = "!!null" \/ node.Value = StrNull \/ node.Value = StrTilde \/ node.Value = EmptyString
    THEN EmptyString
    ELSE node.Value

\* escape_newlines option: every line feed becomes backslash, n
EscapeNewlines(value) == ReplaceAll(value, LF, <<BSL, "n">>)

FormatScalar(node) ==
    IF f.EscapeNewlines THEN EscapeNewlines(ScalarText(node)) ELSE ScalarText(node)

\* the write of a scalar into the ordered container: the path with the
\* formatted value
Emit(om, prefix, node) == Set(om, prefix, FormatScalar(node))

\* a sanitization that leaves the text as it is
sanitizeYAMLContentKeepingNUL(c) == c

sanitizeYAMLContent(c) == ReplaceAll(c, NUL, <<>>)

----------------------------------------------------------------------------
(* File paths (path/filepath on a Unix system) *)

\* the elements of a path between its separators, empty ones included
RECURSIVE Segments(_)
Segments(path) ==
    IF \A i \in 1..Len(path) : path[i] # "/" THEN <<path>>
    ELSE LET i == CHOOSE j \in 1..Len(path) : path[j] = "/" /\ \A k \in 1..(j - 1) : path[k] # "/"
         IN  <<SubSeq(path, 1, i - 1)>> \o Segments(SubSeq(path, i + 1, Len(path)))

RECURSIVE JoinSegments(_)
JoinSegments(segs) ==
    IF segs = <<>> THEN <<>>
    ELSE IF Len(segs) = 1 THEN segs[1]
    ELSE segs[1] \o <<"/">> \o JoinSegments(Tail(segs))

DotDot == <<".", ".">>

\* the loop of filepath.Clean: out is the list of elements kept so far
RECURSIVE CleanSegments(_, _, _)
CleanSegments(segs, out, rooted) ==
    IF segs = <<>> THEN out
    ELSE LET seg == Head(segs)
         IN  IF seg = <<>> \/ seg = <<".">>
             THEN CleanSegments(Tail(segs), out, rooted)
             ELSE IF seg = DotDot
             THEN IF out # <<>> /\ out[Len(out)] # DotDot
                  THEN CleanSegments(Tail(segs), SubSeq(out, 1, Len(out) - 1), rooted)
                  ELSE IF rooted
                  THEN CleanSegments(Tail(segs), out, rooted)
                  ELSE CleanSegments(Tail(segs), Append(out, seg), rooted)
             ELSE CleanSegments(Tail(segs), Append(out, seg), rooted)

\* filepath.Clean
Clean(path) ==
    IF path = <<>> THEN <<".">>
    ELSE LET rooted == path[1] = "/"
             out    == CleanSegments(Segments(path), <<>>, rooted)
         IN  IF rooted THEN <<"/">> \o JoinSegments(out)
             ELSE IF out = <<>> THEN <<".">>
             ELSE JoinSegments(out)

\* os.Getwd
Getwd == <<"/", "w">>

\* filepath.Abs
Abs(path) ==
    IF path # <<>> /\ path[1] = "/" THEN Clean(path) ELSE Clean(Getwd \o <<"/">> \o path)

NoTraversalCheck(cleaned) == FALSE

\* strings.Contains(cleanPath, "..")
HasTraversalPattern(cleaned) == Contains(cleaned, DotDot)

validateFilePath(path) ==
    IF path = EmptyString THEN [path |-> EmptyString, err |-> ErrEmptyPath]
    ELSE LET cleaned == Clean(path)
         IN  IF HasTraversalPattern(cleaned)
             THEN [path |-> EmptyString, err |-> ErrTraversal]
             ELSE [path |-> Abs(cleaned), err |-> NoErr]

\* os.Stat: the root and the working directory are directories, every other
\* path leads to fsObject
Stat(path) ==
    IF path = <<"/">> \/ path = Getwd
    THEN [kind |-> "dir", content |-> EmptyString]
    ELSE fsObject

\* fileInfo.Size(): the length of a file's content; "huge" is a regular file
\* of one byte more than 10 MiB, whose content is not spelled out
FileSize(info) ==
    IF info.kind = "huge" THEN 10 * 1024 * 1024 + 1 ELSE Len(info.content)

\* os.ReadFile comes back: a FIFO without a writer never lets it
ReadFileCompletes(info) == info.kind # "fifo"

----------------------------------------------------------------------------
(* yaml.Unmarshal into a yaml.Node, for texts over the bytes "a", "[",     *)
(* space and NUL: a NUL byte is a reader error; a text of spaces only has  *)
(* no document and leaves the node untouched; a text whose first non-space *)
(* byte is "[" opens a flow sequence that is never closed, a parser error; *)
(* every other text is one plain scalar, its surrounding spaces dropped.   *)

IsSpace(c) == c \in {SP, LF}

RECURSIVE TrimLeft(_)
TrimLeft(s) == IF s # <<>> /\ IsSpace(Head(s)) THEN TrimLeft(Tail(s)) ELSE s

RECURSIVE TrimRight(_)
TrimRight(s) == IF s # <<>> /\ IsSpace(s[Len(s)]) THEN TrimRight(SubSeq(s, 1, Len(s) - 1)) ELSE s

\* strings.TrimSpace
TrimSpace(s) == TrimRight(TrimLeft(s))

Unmarshal(text) ==
    IF Contains(text, <<NUL>>) THEN [node |-> ZeroNode, err |-> "yaml: control characters are not allowed"]
    ELSE LET t == TrimSpace(text)
         IN  IF t = <<>> THEN [node |-> ZeroNode, err |-> NoErr]
             ELSE IF Head(t) = "[" THEN [node |-> ZeroNode, err |-> "yaml: did not find expected node content"]
             ELSE [node |-> DocumentNode(<<ScalarNode("!!str", t)>>), err |-> NoErr]

----------------------------------------------------------------------------
(* Bounds of the model *)

MaxDepthCfg == 2      \* MaxNestingDepth ranges over 1..MaxDepthCfg
MaxSizeCfg  == 3      \* MaxResultSize ranges over 1..MaxSizeCfg
MaxNest     == 3      \* containers are nested at most MaxNest levels deep
MaxRuns     == 2      \* the same input is flattened at most MaxRuns times
MaxTextLen  == 3      \* texts are at most MaxTextLen bytes long
MaxPathLen  == 4      \* file paths are at most MaxPathLen bytes long
MaxSets     == 4      \* at most MaxSets Set calls are made on an OrderedMap
MaxKeyTail  == 2      \* keys end in at most MaxKeyTail bytes of any kind
MaxKeyCalls == 2      \* sanitizeKey is applied at most MaxKeyCalls times to a key

----------------------------------------------------------------------------
(* Input documents *)

StrX     == ScalarNode("!!str", <<"x">>)
StrLines == ScalarNode("!!str", <<"x", LF, "y">>)
StrQNull == ScalarNode("!!str", StrNull)
StrQTilde == ScalarNode("!!str", StrTilde)
StrEmpty == ScalarNode("!!str", EmptyString)
NullWord == ScalarNode("!!null", StrNull)
NullNone == ScalarNode("!!null", EmptyString)
BoolTrue == ScalarNode("!!bool", <<"t", "r", "u", "e">>)
BoolCap  == ScalarNode("!!bool", <<"T", "r", "u", "e">>)
Int42    == ScalarNode("!!int", <<"4", "2">>)
IntHex   == ScalarNode("!!int", <<"0", "x", "2", "A">>)
IntSep   == ScalarNode("!!int", <<"1", "_", "0", "0", "0">>)

Scalars == {StrX, StrLines, StrQNull, StrQTilde, StrEmpty, NullWord, NullNone,
            BoolTrue, BoolCap, Int42, IntHex, IntSep}

EmptyMap == MappingNode(<<>>)
EmptySeq == SequenceNode(<<>>)

KeyA    == ScalarNode("!!str", <<"a">>)
KeyB    == ScalarNode("!!str", <<"b">>)
KeyANul == ScalarNode("!!str", <<"a", NUL>>)
KeyAB   == ScalarNode("!!str", <<"a", ".", "b">>)
KeyLF   == ScalarNode("!!str", <<"a", LF>>)

Leaves == Scalars \cup {EmptyMap, EmptySeq}

\* the children used where two siblings are combined
Siblings == {StrX, StrLines, EmptyMap, EmptySeq}

Level1 ==
    Leaves
    \cup {SequenceNode(<<l>>) : l \in Leaves}
    \cup {MappingNode(<<k, l>>) : k \in {KeyA, KeyLF}, l \in Leaves}
    \cup {SequenceNode(<<l, m>>) : l \in Siblings, m \in Siblings}
    \cup {MappingNode(<<k[1], l, k[2], m>>) :
              k \in {<<KeyA, KeyB>>, <<KeyB, KeyA>>, <<KeyA, KeyANul>>},
              l \in Siblings, m \in Siblings}
    \cup {MappingNode(<<KeyAB, StrX, KeyA, MappingNode(<<KeyB, StrLines>>)>>),
          MappingNode(<<KeyA, MappingNode(<<KeyB, StrX>>), KeyAB, StrLines>>),
          MappingNode(<<EmptySeq, StrX>>),
          MappingNode(<<StrEmpty, MappingNode(<<KeyA, StrX>>)>>),
          MappingNode(<<KeyA, StrX, KeyA, StrLines>>),
          MappingNode(<<KeyA, StrX, EmptyMap, StrLines>>),
          MappingNode(<<KeyA, StrX, KeyB>>),
          MappingNode(<<KeyA, StrX, KeyB, StrX, KeyANul, StrLines>>),
          SequenceNode(<<StrX, StrLines, EmptyMap>>)}

Wrap(t) == {SequenceNode(<<t>>),
            MappingNode(<<KeyA, t>>),
            SequenceNode(<<StrX, t>>),
            MappingNode(<<KeyA, t, KeyB, EmptyMap>>)}

\* the containers that are nested further
Cores == {EmptyMap, EmptySeq,
          SequenceNode(<<StrX, StrLines>>),
          MappingNode(<<KeyA, StrX, KeyB, StrLines>>)}
         \cup {SequenceNode(<<l>>) : l \in Siblings}
         \cup {MappingNode(<<KeyA, l>>) : l \in Siblings}

RECURSIVE Nested(_)
Nested(n) == IF n <= 1 THEN Cores
             ELSE LET prev == Nested(n - 1) IN prev \cup UNION {Wrap(t) : t \in prev}

\* the trees whose containers are nested at most n deep
Level(n) == Level1 \cup Nested(n)

NoAnchors == <<>>

\* documents without aliases
PlainDocs == {[root |-> DocumentNode(<<t>>), anchors |-> NoAnchors] : t \in Level(MaxNest)}

AnchorTargets == {StrX, MappingNode(<<KeyA, StrX>>), SequenceNode(<<StrX, StrLines>>)}

\* documents in which `x` is anchored at the first child and aliased later
AliasDocs ==
    UNION {{[root |-> DocumentNode(<<MappingNode(<<KeyA, t, KeyB, AliasNode("x")>>)>>),
             anchors |-> [n \in {"x"} |-> t]],
            [root |-> DocumentNode(<<SequenceNode(<<t, AliasNode("x")>>)>>),
             anchors |-> [n \in {"x"} |-> t]],
            [root |-> DocumentNode(<<MappingNode(<<KeyA, t, KeyB, SequenceNode(<<AliasNode("x")>>)>>)>>),
             anchors |-> [n \in {"x"} |-> t]]} : t \in AnchorTargets}

NilNode == Node("nil", "", <<>>, <<>>, NoAlias)

\* nodes a caller can hand over that are no parsed document
OddDocs == {[root |-> t, anchors |-> NoAnchors] :
               t \in {NilNode, ZeroNode, DocumentNode(<<>>), AliasNode(NoAlias), StrX,
                      MappingNode(<<KeyA, StrX>>)}}

Docs == PlainDocs \cup AliasDocs \cup OddDocs

TextBytes == {"a", "[", SP, NUL}

Texts == UNION {[1..n -> TextBytes] : n \in 0..MaxTextLen}

PathBytes == {"/", ".", "a"}

Paths == UNION {[1..n -> PathBytes] : n \in 0..MaxPathLen}

FsObjects == {[kind |-> "missing", content |-> EmptyString],
              [kind |-> "dir", content |-> EmptyString],
              [kind |-> "fifo", content |-> EmptyString],
              [kind |-> "huge", content |-> EmptyString]}
             \cup {[kind |-> "file", content |-> t] :
                      t \in {EmptyString, <<"a">>, <<"a", NUL>>, <<"[", "a">>, <<"a", SP, "a">>}}

----------------------------------------------------------------------------
(* The entry points and the recursive traversal, one action per function   *)
(* body or per statement at which another goroutine can interleave.  A     *)
(* frame stands for one active call of the traversal; the top of the stack *)
(* is the last element.                                                    *)

Frame(fn, node, prefix, depth, i) ==
    [fn |-> fn, node |-> node, prefix |-> prefix, depth |-> depth, i |-> i]

Top == stack[Len(stack)]
Pop == SubSeq(stack, 1, Len(stack) - 1)
ReplaceTop(fr) == Append(Pop, fr)

NoReturn == [result |-> <<>>, err |-> NoErr]

travVars == <<stack, result, err, visited>>
textVars == <<arg, sanitized, worker, done, yamlNode, perr, parserCalls>>
cfgVars  == <<entry, f, anchors, yamlContent>>
envVars  == <<filePath, fsObject>>
fileVars == <<cleanPath, fsLog>>
provVars == <<data, providerData, runResp, readResp>>
ioVars   == <<reader, readDone, readContent, readErr, sent>>
unitVars == <<orderedMap, sets, sanitizer, keyTrace, ioVars>>

\* where the entry point under execution returns to
ReturnTo == CASE entry = "Run"  -> "RunReturned"
              [] entry = "Read" -> "ReadReturned"
              [] OTHER          -> "done"

\* the entry point called by the test or provider returns r to its caller
Return(r) ==
    /\ ret' = r
    /\ pc' = ReturnTo
    /\ runs' = runs + 1
    /\ first' = IF runs = 0 THEN r ELSE first

LoopNeverReturns(e) == FALSE

\* `if err != nil { return err }` after a recursive call in the two loops
LoopReturns(e) == e # NoErr

\* the pairs of a mapping in any order, as ranging over a Go map visits them
PairOrdersOfMap(node) ==
    LET n == Len(node.Content) \div 2
        Perms == {p \in [1..n -> 1..n] : \A i, j \in 1..n : p[i] = p[j] => i = j}
    IN  {[i \in 1..(2 * n) |-> node.Content[2 * p[(i + 1) \div 2] - (i % 2)]] : p \in Perms}

\* the order in which a mapping's pairs are visited: Content order
PairOrders(node) == {node.Content}

\* FlattenYAMLFile: the validation of the path
FlattenYAMLFile ==
    /\ pc = "FlattenYAMLFile"
    /\ LET v == validateFilePath(filePath)
       IN  IF v.err # NoErr
           THEN /\ Return([result |-> <<>>, err |-> v.err])
                /\ UNCHANGED cleanPath
           ELSE /\ cleanPath' = v.path
                /\ pc' = "Stat"
                /\ UNCHANGED <<ret, runs, first>>
    /\ UNCHANGED <<unitVars, cfgVars, provVars, envVars, input, travVars, textVars, fsLog>>

\* FlattenYAMLFile: os.Stat(cleanPath) and the size check
FlattenYAMLFileStat ==
    /\ pc = "Stat"
    /\ fsLog' = Append(fsLog, <<"Stat", cleanPath>>)
    /\ LET info == Stat(cleanPath)
       IN  IF info.kind = "missing"
           THEN Return([result |-> <<>>, err |-> ErrFileAccess])
           ELSE IF FileSize(info) > f.MaxYAMLSize
           THEN Return([result |-> <<>>, err |-> ErrFileSize])
           ELSE /\ pc' = "ReadFile"
                /\ UNCHANGED <<ret, runs, first>>
    /\ UNCHANGED <<unitVars, cfgVars, provVars, envVars, input, travVars, textVars, cleanPath>>

\* FlattenYAMLFile: os.ReadFile(cleanPath) and the call of FlattenYAMLString
FlattenYAMLFileRead ==
    /\ pc = "ReadFile"
    /\ ReadFileCompletes(Stat(cleanPath))
    /\ fsLog' = Append(fsLog, <<"ReadFile", cleanPath>>)
    /\ LET info == Stat(cleanPath)
       IN  IF info.kind # "file"
           THEN /\ Return([result |-> <<>>, err |-> ErrFileRead])
                /\ UNCHANGED arg
           ELSE /\ arg' = info.content
                /\ pc' = "FlattenYAMLString"
                /\ UNCHANGED <<ret, runs, first>>
    /\ UNCHANGED <<unitVars, cfgVars, provVars, envVars, input, travVars, sanitized, worker, done, yamlNode, perr,
                   parserCalls, cleanPath>>

\* FlattenYAMLString up to the select statement: the guards, the
\* sanitization and the start of the parsing goroutine
FlattenYAMLString ==
    /\ pc = "FlattenYAMLString"
    /\ IF arg = EmptyString
       THEN /\ Return([result |-> <<>>, err |-> ErrEmptyContent])
            /\ UNCHANGED <<sanitized, worker, done, yamlNode, perr>>
       ELSE IF Len(arg) > f.MaxYAMLSize
       THEN /\ Return([result |-> <<>>, err |-> ErrContentSize])
            /\ UNCHANGED <<sanitized, worker, done, yamlNode, perr>>
       ELSE /\ sanitized' = sanitizeYAMLContent(arg)
            /\ yamlNode' = ZeroNode
            /\ perr' = NoErr
            /\ done' = FALSE
            /\ worker' = "running"
            /\ pc' = "select"
            /\ UNCHANGED <<ret, runs, first>>
    /\ UNCHANGED <<unitVars, cfgVars, provVars, envVars, fileVars, input, travVars, arg, parserCalls>>

\* the goroutine: err = yaml.Unmarshal([]byte(yamlContent), &yamlNode)
WorkerUnmarshal ==
    /\ worker = "running"
    /\ LET r == Unmarshal(sanitized)
       IN  /\ yamlNode' = r.node
           /\ perr' = r.err
    /\ parserCalls' = Append(parserCalls, sanitized)
    /\ worker' = "unmarshalled"
    /\ UNCHANGED <<unitVars, cfgVars, provVars, envVars, fileVars, input, pc, travVars, ret, runs, first, arg, sanitized, done>>

\* the goroutine: close(done)
WorkerClose ==
    /\ worker = "unmarshalled"
    /\ done' = TRUE
    /\ worker' = "exited"
    /\ UNCHANGED <<unitVars, cfgVars, provVars, envVars, fileVars, input, pc, travVars, ret, runs, first, arg, sanitized, yamlNode, perr,
                   parserCalls>>

\* a select that takes the done case without a value on the channel
SelectDoneUnsignalled ==
    /\ pc = "select"
    /\ pc' = "parsed"
    /\ UNCHANGED <<unitVars, cfgVars, provVars, envVars, fileVars, input, travVars, ret, runs, first, textVars>>

\* select: case <-done
SelectDone ==
    /\ pc = "select"
    /\ done
    /\ pc' = "parsed"
    /\ UNCHANGED <<unitVars, cfgVars, provVars, envVars, fileVars, input, travVars, ret, runs, first, textVars>>

SelectWithoutTimeout ==
    /\ pc = "select"
    /\ FALSE
    /\ UNCHANGED vars

\* select: case <-time.After(5 * time.Second)
SelectTimeout ==
    /\ pc = "select"
    /\ Return([result |-> <<>>, err |-> ErrParseTimeout])
    /\ UNCHANGED <<unitVars, cfgVars, provVars, envVars, fileVars, input, travVars, textVars>>

\* FlattenYAMLString after the select: the error check and the call of
\* FlattenYAMLNode(&yamlNode)
FlattenYAMLStringParsed ==
    /\ pc = "parsed"
    /\ IF perr # NoErr
       THEN /\ Return([result |-> <<>>, err |-> ErrParse])
            /\ UNCHANGED input
       ELSE /\ input' = yamlNode
            /\ pc' = "FlattenYAMLNode"
            /\ UNCHANGED <<ret, runs, first>>
    /\ UNCHANGED <<unitVars, cfgVars, provVars, envVars, fileVars, travVars, textVars>>

\* FlattenYAMLNode, up to the call of flattenNodeWithDepth
FlattenYAMLNode ==
    /\ pc = "FlattenYAMLNode"
    /\ IF input.Kind = "nil"
       THEN /\ Return([result |-> <<>>, err |-> ErrNilNode])
            /\ UNCHANGED <<stack, result, err>>
       ELSE /\ result' = NewOrderedMap
            /\ err' = NoErr
            /\ stack' = <<Frame("flattenNodeWithDepth", input, EmptyString, 0, 0)>>
            /\ pc' = "traverse"
            /\ UNCHANGED <<ret, runs, first>>
    /\ visited' = 0
    /\ UNCHANGED <<unitVars, cfgVars, provVars, envVars, fileVars, input, textVars>>

\* an alias that counts as one more level of nesting
aliasDepthPlusOne(depth) == depth + 1

\* the depth handed to the call for node.Alias: the depth of the alias
aliasDepth(depth) == depth

flattenNodeWithDepth ==
    /\ pc = "traverse"
    /\ stack # <<>>
    /\ Top.fn = "flattenNodeWithDepth"
    /\ visited' = visited + 1
    /\ LET node   == Top.node
           prefix == Top.prefix
           depth  == Top.depth
           v      == validateDepthAndSize(depth, OMLen(result))
       IN  IF v # NoErr
           THEN /\ err' = v
                /\ stack' = Pop
                /\ UNCHANGED result
           ELSE CASE node.Kind = "DocumentNode" ->
                       /\ stack' = IF Len(node.Content) > 0
                                   THEN ReplaceTop(Frame("flattenNodeWithDepth", node.Content[1], prefix, depth, 0))
                                   ELSE Pop
                       /\ UNCHANGED <<result, err>>
                  [] node.Kind = "MappingNode" ->
                       /\ \E c \in PairOrders(node) :
                             stack' = ReplaceTop(Frame("flattenMappingNodeWithDepth",
                                                       [node EXCEPT !.Content = c], prefix, depth + 1, 0))
                       /\ UNCHANGED <<result, err>>
                  [] node.Kind = "SequenceNode" ->
                       /\ stack' = ReplaceTop(Frame("flattenSequenceNodeWithDepth", node, prefix, depth + 1, 0))
                       /\ UNCHANGED <<result, err>>
                  [] node.Kind = "ScalarNode" ->
                       /\ result' = Emit(result, prefix, node)
                       /\ stack' = Pop
                       /\ UNCHANGED err
                  [] node.Kind = "AliasNode" ->
                       /\ stack' = IF node.Alias # NoAlias
                                   THEN ReplaceTop(Frame("flattenNodeWithDepth", anchors[node.Alias], prefix,
                                                     aliasDepth(depth), 0))
                                   ELSE Pop
                       /\ UNCHANGED <<result, err>>
                  [] OTHER ->
                       /\ stack' = Pop
                       /\ UNCHANGED <<result, err>>
    /\ UNCHANGED <<unitVars, cfgVars, provVars, envVars, fileVars, input, pc, ret, runs, first, textVars>>

\* a loop over the pairs of a mapping that stops after the first pair
flattenMappingNodeFirstPairOnly ==
    /\ pc = "traverse"
    /\ stack # <<>>
    /\ Top.fn = "flattenMappingNodeWithDepth"
    /\ LET node == Top.node
           i    == Top.i
       IN  IF LoopReturns(err) \/ i >= 2 \/ i + 1 >= Len(node.Content)
           THEN /\ stack' = Pop
                /\ UNCHANGED err
           ELSE LET keyNode   == node.Content[i + 1]
                    valueNode == node.Content[i + 2]
                IN  IF keyNode.Kind # "ScalarNode"
                    THEN /\ err' = ErrNonScalarKey
                         /\ stack' = Pop
                    ELSE LET key       == sanitizeKey(keyNode.Value)
                             newPrefix == buildPrefix(Top.prefix, key)
                         IN  /\ stack' = Append(ReplaceTop([Top EXCEPT !.i = i + 2]),
                                                Frame("flattenNodeWithDepth", valueNode, newPrefix, Top.depth, 0))
                             /\ UNCHANGED err
    /\ UNCHANGED <<unitVars, cfgVars, provVars, envVars, fileVars, input, pc, result, visited, ret, runs, first, textVars>>

\* one iteration of the loop of flattenMappingNodeWithDepth; i is the Go index
flattenMappingNodeWithDepth ==
    /\ pc = "traverse"
    /\ stack # <<>>
    /\ Top.fn = "flattenMappingNodeWithDepth"
    /\ LET node == Top.node
           i    == Top.i
       IN  IF LoopReturns(err) \/ i >= Len(node.Content) \/ i + 1 >= Len(node.Content)
           THEN /\ stack' = Pop
                /\ UNCHANGED err
           ELSE LET keyNode   == node.Content[i + 1]
                    valueNode == node.Content[i + 2]
                IN  IF keyNode.Kind # "ScalarNode"
                    THEN /\ err' = ErrNonScalarKey
                         /\ stack' = Pop
                    ELSE LET key       == sanitizeKey(keyNode.Value)
                             newPrefix == buildPrefix(Top.prefix, key)
                         IN  /\ stack' = Append(ReplaceTop([Top EXCEPT !.i = i + 2]),
                                                Frame("flattenNodeWithDepth", valueNode, newPrefix, Top.depth, 0))
                             /\ UNCHANGED err
    /\ UNCHANGED <<unitVars, cfgVars, provVars, envVars, fileVars, input, pc, result, visited, ret, runs, first, textVars>>

flattenSequenceNodeWritingEmpty ==
    /\ pc = "traverse"
    /\ stack # <<>>
    /\ Top.fn = "flattenSequenceNodeWithDepth"
    /\ LET node == Top.node
           i    == Top.i
       IN  IF LoopReturns(err) \/ i >= Len(node.Content)
           THEN /\ stack' = Pop
                /\ result' = IF Len(node.Content) = 0 /\ ~LoopReturns(err)
                             THEN Set(result, Top.prefix, EmptyString) ELSE result
           ELSE /\ stack' = Append(ReplaceTop([Top EXCEPT !.i = i + 1]),
                                   Frame("flattenNodeWithDepth", node.Content[i + 1],
                                         indexPrefix(Top.prefix, i), Top.depth, 0))
                /\ UNCHANGED result
    /\ UNCHANGED <<unitVars, cfgVars, provVars, envVars, fileVars, input, pc, err, visited, ret, runs, first, textVars>>

\* one iteration of the loop of flattenSequenceNodeWithDepth
flattenSequenceNodeWithDepth ==
    /\ pc = "traverse"
    /\ stack # <<>>
    /\ Top.fn = "flattenSequenceNodeWithDepth"
    /\ LET node == Top.node
           i    == Top.i
       IN  IF LoopReturns(err) \/ i >= Len(node.Content)
           THEN stack' = Pop
           ELSE stack' = Append(ReplaceTop([Top EXCEPT !.i = i + 1]),
                                Frame("flattenNodeWithDepth", node.Content[i + 1],
                                      indexPrefix(Top.prefix, i), Top.depth, 0))
    /\ UNCHANGED <<unitVars, cfgVars, provVars, envVars, fileVars, input, pc, result, err, visited, ret, runs, first, textVars>>

\* the return of FlattenYAMLNode once flattenNodeWithDepth has returned
FlattenYAMLNodeReturn ==
    /\ pc = "traverse"
    /\ stack = <<>>
    /\ Return(IF err # NoErr THEN [result |-> <<>>, err |-> err]
                             ELSE [result |-> <<result>>, err |-> NoErr])
    /\ UNCHANGED <<unitVars, cfgVars, provVars, envVars, fileVars, input, travVars, textVars>>

\* the caller calls the same entry point once more with the same arguments;
\* the locals of the new call are fresh
Rerun ==
    /\ pc = "done"
    /\ runs < MaxRuns
    /\ worker \in {"idle", "exited"}
    /\ pc' = entry
    /\ ret' = NoReturn
    /\ result' = NewOrderedMap
    /\ err' = NoErr
    /\ visited' = 0
    /\ worker' = "idle"
    /\ done' = FALSE
    /\ arg' = yamlContent
    /\ fsLog' = <<>>
    /\ UNCHANGED <<unitVars, cfgVars, provVars, envVars, cleanPath, input, stack, runs, first, sanitized, yamlNode, perr,
                   parserCalls>>

----------------------------------------------------------------------------
(* The provider: the function yamlflattener::flatten (Run) and the data    *)
(* source yamlflattener_flatten (Read).  A nullable value is a sequence of *)
(* length 0 (null) or 1.                                                   *)

Null == <<>>

NoRunResponse  == [Error |-> Null, Result |-> Null]
NoReadResponse == [Diagnostics |-> <<>>, State |-> Null]

\* function.NewFuncError(text), with the flattener's error it wraps
FuncError(text, cause) == <<[text |-> text, cause |-> cause]>>

\* resp.Diagnostics.AddError(summary, detail), with the flattener's error
\* the detail wraps
AddError(summary, cause) == <<[summary |-> summary, cause |-> cause]>>

\* the const maxYAMLSize of Run
maxYAMLSize == 10 * 1024 * 1024

\* the list of (key, value) tuples Run builds from the ordered result
ListOfTuples(om) == [i \in 1..OMLen(om) |-> <<Keys(om)[i], Get(om, Keys(om)[i])[1]>>]

\* Run, up to the call of FlattenYAMLString
Run ==
    /\ pc = "Run"
    /\ IF yamlContent = EmptyString
       THEN /\ runResp' = [Error  |-> FuncError("YAML content cannot be empty", NoErr),
                           Result |-> Null]
            /\ pc' = "responded"
            /\ UNCHANGED <<f, arg>>
       ELSE LET trimmed == TrimSpace(yamlContent)
            IN  IF trimmed = EmptyString
                THEN /\ runResp' = [Error  |-> FuncError("YAML content cannot be empty or contain only whitespace", NoErr),
                                    Result |-> Null]
                     /\ pc' = "responded"
                     /\ UNCHANGED <<f, arg>>
                ELSE IF Len(trimmed) > maxYAMLSize
                THEN /\ runResp' = [Error  |-> FuncError("YAML content exceeds maximum allowed size", NoErr),
                                    Result |-> Null]
                     /\ pc' = "responded"
                     /\ UNCHANGED <<f, arg>>
                ELSE /\ arg' = ReplaceAll(trimmed, NUL, <<>>)
                     /\ f' = [NewFlattener EXCEPT !.MaxYAMLSize = maxYAMLSize,
                                                  !.MaxNestingDepth = 100,
                                                  !.MaxResultSize = 100000]
                     /\ pc' = "FlattenYAMLString"
                     /\ UNCHANGED runResp
    /\ UNCHANGED <<unitVars, entry, anchors, yamlContent, envVars, fileVars, input, travVars, ret, runs, first,
                   sanitized, worker, done, yamlNode, perr, parserCalls, data, providerData, readResp>>

\* Run, after FlattenYAMLString has returned
RunReturned ==
    /\ pc = "RunReturned"
    /\ runResp' = IF ret.err # NoErr
                  THEN [Error |-> FuncError("Failed to flatten YAML", ret.err), Result |-> Null]
                  ELSE [Error |-> Null, Result |-> <<ListOfTuples(ret.result[1])>>]
    /\ pc' = "responded"
    /\ UNCHANGED <<unitVars, cfgVars, envVars, fileVars, input, travVars, ret, runs, first, textVars,
                   data, providerData, readResp>>

\* the configuration evaluates the data source on the content the function
\* was called with
ReadSameContent ==
    /\ pc = "responded"
    /\ entry = "Run"
    /\ worker \in {"idle", "exited"}
    /\ entry' = "Read"
    /\ pc' = "Read"
    /\ f' = NewFlattener
    /\ ret' = NoReturn
    /\ result' = NewOrderedMap
    /\ err' = NoErr
    /\ visited' = 0
    /\ worker' = "idle"
    /\ done' = FALSE
    /\ arg' = yamlContent
    /\ UNCHANGED <<unitVars, anchors, yamlContent, envVars, fileVars, input, stack, runs, first, sanitized,
                   yamlNode, perr, parserCalls, provVars>>

\* a Read that takes yaml_content when both inputs are set
ReadPreferringContent ==
    /\ pc = "Read"
    /\ IF data.YAMLContent = Null /\ data.YAMLFile = Null
       THEN /\ readResp' = [readResp EXCEPT !.Diagnostics = AddError("Missing Required Input", NoErr)]
            /\ pc' = "responded"
            /\ UNCHANGED <<f, arg>>
       ELSE IF FALSE
       THEN /\ readResp' = [readResp EXCEPT !.Diagnostics = AddError("Conflicting Inputs", NoErr)]
            /\ pc' = "responded"
            /\ UNCHANGED <<f, arg>>
       ELSE LET escapeNewlines ==
                    IF providerData # Null /\ providerData[1].EscapeNewlines # Null
                    THEN providerData[1].EscapeNewlines[1] ELSE FALSE
                withOptions == [NewFlattenerWithOptions(escapeNewlines)
                                    EXCEPT !.MaxYAMLSize = 10 * 1024 * 1024,
                                           !.MaxNestingDepth = 100,
                                           !.MaxResultSize = 100000]
                flattenerInstance ==
                    IF providerData # Null /\ providerData[1].MaxDepth # Null
                    THEN [withOptions EXCEPT !.MaxNestingDepth = providerData[1].MaxDepth[1]]
                    ELSE withOptions
            IN  /\ f' = flattenerInstance
                /\ IF data.YAMLContent # Null
                   THEN IF Len(data.YAMLContent[1]) > flattenerInstance.MaxYAMLSize
                        THEN /\ readResp' = [readResp EXCEPT !.Diagnostics =
                                                AddError("YAML Content Too Large", NoErr)]
                             /\ pc' = "responded"
                             /\ UNCHANGED arg
                        ELSE /\ arg' = data.YAMLContent[1]
                             /\ pc' = "FlattenYAMLString"
                             /\ UNCHANGED readResp
                   ELSE IF Contains(Clean(data.YAMLFile[1]), DotDot)
                        THEN /\ readResp' = [readResp EXCEPT !.Diagnostics =
                                                AddError("Invalid File Path", NoErr)]
                             /\ pc' = "responded"
                             /\ UNCHANGED arg
                        ELSE /\ pc' = "FlattenYAMLFile"
                             /\ UNCHANGED <<readResp, arg>>
    /\ UNCHANGED <<unitVars, entry, anchors, yamlContent, envVars, fileVars, input, travVars, ret, runs, first,
                   sanitized, worker, done, yamlNode, perr, parserCalls, data, providerData, runResp>>

\* Read, up to the call of FlattenYAMLString or FlattenYAMLFile
Read ==
    /\ pc = "Read"
    /\ IF data.YAMLContent = Null /\ data.YAMLFile = Null
       THEN /\ readResp' = [readResp EXCEPT !.Diagnostics = AddError("Missing Required Input", NoErr)]
            /\ pc' = "responded"
            /\ UNCHANGED <<f, arg>>
       ELSE IF data.YAMLContent # Null /\ data.YAMLFile # Null
       THEN /\ readResp' = [readResp EXCEPT !.Diagnostics = AddError("Conflicting Inputs", NoErr)]
            /\ pc' = "responded"
            /\ UNCHANGED <<f, arg>>
       ELSE LET escapeNewlines ==
                    IF providerData # Null /\ providerData[1].EscapeNewlines # Null
                    THEN providerData[1].EscapeNewlines[1] ELSE FALSE
                withOptions == [NewFlattenerWithOptions(escapeNewlines)
                                    EXCEPT !.MaxYAMLSize = 10 * 1024 * 1024,
                                           !.MaxNestingDepth = 100,
                                           !.MaxResultSize = 100000]
                flattenerInstance ==
                    IF providerData # Null /\ providerData[1].MaxDepth # Null
                    THEN [withOptions EXCEPT !.MaxNestingDepth = providerData[1].MaxDepth[1]]
                    ELSE withOptions
            IN  /\ f' = flattenerInstance
                /\ IF data.YAMLContent # Null
                   THEN IF Len(data.YAMLContent[1]) > flattenerInstance.MaxYAMLSize
                        THEN /\ readResp' = [readResp EXCEPT !.Diagnostics =
                                                AddError("YAML Content Too Large", NoErr)]
                             /\ pc' = "responded"
                             /\ UNCHANGED arg
                        ELSE /\ arg' = data.YAMLContent[1]
                             /\ pc' = "FlattenYAMLString"
                             /\ UNCHANGED readResp
                   ELSE IF Contains(Clean(data.YAMLFile[1]), DotDot)
                        THEN /\ readResp' = [readResp EXCEPT !.Diagnostics =
                                                AddError("Invalid File Path", NoErr)]
                             /\ pc' = "responded"
                             /\ UNCHANGED arg
                        ELSE /\ pc' = "FlattenYAMLFile"
                             /\ UNCHANGED <<readResp, arg>>
    /\ UNCHANGED <<unitVars, entry, anchors, yamlContent, envVars, fileVars, input, travVars, ret, runs, first,
                   sanitized, worker, done, yamlNode, perr, parserCalls, data, providerData, runResp>>

\* Read, after FlattenYAMLString or FlattenYAMLFile has returned
ReadReturned ==
    /\ pc = "ReadReturned"
    /\ readResp' =
          IF ret.err # NoErr
          THEN [readResp EXCEPT !.Diagnostics =
                   AddError(IF data.YAMLContent # Null THEN "Failed to Flatten YAML Content"
                                                       ELSE "Failed to Flatten YAML File", ret.err)]
          ELSE [readResp EXCEPT !.State = <<[Flattened |-> ToMap(ret.result[1]),
                                             ID        |-> "yaml_flatten"]>>]
    /\ pc' = "responded"
    /\ UNCHANGED <<unitVars, cfgVars, envVars, fileVars, input, travVars, ret, runs, first, textVars,
                   data, providerData, runResp>>

NoData == [YAMLContent |-> Null, YAMLFile |-> Null]

\* provider configurations: none, one with nothing set, one with both set
ProviderDatas == {Null,
                  <<[EscapeNewlines |-> Null, MaxDepth |-> Null]>>,
                  <<[EscapeNewlines |-> <<TRUE>>, MaxDepth |-> <<1>>]>>}

ReadPaths == {<<"a">>, <<".", ".", "/", "a">>, <<"a", "/", ".", ".", "/", "a">>, <<"/">>}

\* the configurations of the data source: a content, a file, neither, both
DataModels == {[YAMLContent |-> <<t>>, YAMLFile |-> Null] : t \in Texts}
              \cup [YAMLContent : {Null, <<<<"a">>>>}, YAMLFile : {Null} \cup {<<p>> : p \in ReadPaths}]

\* small limits with new lines left as they are, and the default limits with
\* new lines escaped
Flatteners == [MaxNestingDepth : 1..MaxDepthCfg, MaxResultSize : 1..MaxSizeCfg,
               MaxYAMLSize : {MaxTextLen}, EscapeNewlines : {FALSE}]
              \cup {NewFlattenerWithOptions(TRUE)}

\* a test calls FlattenYAMLNode on a tree
InitNode ==
    /\ entry = "FlattenYAMLNode"
    /\ f \in Flatteners
    /\ \E d \in Docs : input = d.root /\ anchors = d.anchors
    /\ yamlContent = EmptyString
    /\ filePath = EmptyString
    /\ fsObject = [kind |-> "missing", content |-> EmptyString]
    /\ data = NoData
    /\ providerData = Null

\* a caller calls FlattenYAMLString on a text
InitString ==
    /\ entry = "FlattenYAMLString"
    /\ f \in [MaxNestingDepth : {MaxDepthCfg}, MaxResultSize : {1, MaxSizeCfg},
              MaxYAMLSize : {MaxTextLen - 1, MaxTextLen}, EscapeNewlines : {FALSE}]
    /\ input = ZeroNode
    /\ anchors = NoAnchors
    /\ yamlContent \in Texts
    /\ filePath = EmptyString
    /\ fsObject = [kind |-> "missing", content |-> EmptyString]
    /\ data = NoData
    /\ providerData = Null

\* a caller calls FlattenYAMLFile on a path
InitFile ==
    /\ entry = "FlattenYAMLFile"
    /\ f \in [MaxNestingDepth : {MaxDepthCfg}, MaxResultSize : {MaxSizeCfg},
              MaxYAMLSize : {MaxTextLen - 1, MaxTextLen}, EscapeNewlines : {FALSE}]
    /\ input = ZeroNode
    /\ anchors = NoAnchors
    /\ yamlContent = EmptyString
    /\ filePath \in Paths
    /\ fsObject \in FsObjects
    /\ data = NoData
    /\ providerData = Null

\* a configuration calls the function on a text
InitRun ==
    /\ entry = "Run"
    /\ f = NewFlattener
    /\ input = ZeroNode
    /\ anchors = NoAnchors
    /\ yamlContent \in Texts
    /\ filePath = EmptyString
    /\ fsObject = [kind |-> "missing", content |-> EmptyString]
    /\ data = [YAMLContent |-> <<yamlContent>>, YAMLFile |-> Null]
    /\ providerData \in ProviderDatas

\* a configuration reads the data source
InitRead ==
    /\ entry = "Read"
    /\ f = NewFlattener
    /\ input = ZeroNode
    /\ anchors = NoAnchors
    /\ data \in DataModels
    /\ providerData \in ProviderDatas
    /\ yamlContent = IF data.YAMLContent # Null THEN data.YAMLContent[1] ELSE EmptyString
    /\ filePath = IF data.YAMLFile # Null THEN data.YAMLFile[1] ELSE EmptyString
    /\ fsObject \in IF data.YAMLFile # Null THEN FsObjects
                                             ELSE {[kind |-> "missing", content |-> EmptyString]}

\* no call has been made yet
InitLocals ==
    /\ runResp = NoRunResponse
    /\ readResp = NoReadResponse
    /\ cleanPath = EmptyString
    /\ fsLog = <<>>
    /\ pc = entry
    /\ stack = <<>>
    /\ result = NewOrderedMap
    /\ err = NoErr
    /\ visited = 0
    /\ ret = NoReturn
    /\ runs = 0
    /\ first = NoReturn
    /\ arg = yamlContent
    /\ sanitized = EmptyString
    /\ worker = "idle"
    /\ done = FALSE
    /\ yamlNode = ZeroNode
    /\ perr = NoErr
    /\ parserCalls = <<>>

\* no OrderedMap is written to directly
InitUnits ==
    /\ orderedMap = NewOrderedMap
    /\ sets = <<>>
    /\ sanitizer = "none"
    /\ keyTrace = <<>>
    /\ reader = "idle"
    /\ readDone = FALSE
    /\ readContent = EmptyString
    /\ readErr = NoErr
    /\ sent = <<>>

Init ==
    /\ InitNode \/ InitString \/ InitFile \/ InitRun \/ InitRead
    /\ InitLocals
    /\ InitUnits

Next ==
    \/ FlattenYAMLFile
    \/ FlattenYAMLFileStat
    \/ FlattenYAMLFileRead
    \/ FlattenYAMLString
    \/ WorkerUnmarshal
    \/ WorkerClose
    \/ SelectDone
    \/ SelectTimeout
    \/ FlattenYAMLStringParsed
    \/ FlattenYAMLNode
    \/ flattenNodeWithDepth
    \/ flattenMappingNodeWithDepth
    \/ flattenSequenceNodeWithDepth
    \/ FlattenYAMLNodeReturn
    \/ Rerun
    \/ Run
    \/ RunReturned
    \/ ReadSameContent
    \/ Read
    \/ ReadReturned

Spec == Init /\ [][Next]_vars

----------------------------------------------------------------------------
(* The OrderedMap on its own: a caller makes Set calls on a new map. *)

OMKeys   == {<<"a">>, <<"b">>, <<"a", ".", "b">>, EmptyString}
OMValues == {<<"x">>, <<"y">>, EmptyString}

\* orderedMap.Set(key, value)
OrderedMapSet ==
    /\ entry = "OrderedMap"
    /\ Len(sets) < MaxSets
    /\ \E key \in OMKeys, value \in OMValues :
          /\ orderedMap' = Set(orderedMap, key, value)
          /\ sets' = Append(sets, <<key, value>>)
    /\ UNCHANGED <<sanitizer, keyTrace, ioVars, cfgVars, provVars, envVars, fileVars, input, pc, travVars, ret, runs, first, textVars>>

\* orderedMap := NewOrderedMap()
InitOrderedMap ==
    /\ entry = "OrderedMap"
    /\ f = NewFlattener
    /\ input = ZeroNode
    /\ anchors = NoAnchors
    /\ yamlContent = EmptyString
    /\ filePath = EmptyString
    /\ fsObject = [kind |-> "missing", content |-> EmptyString]
    /\ data = NoData
    /\ providerData = Null
    /\ InitLocals
    /\ InitUnits

NextOrderedMap == OrderedMapSet

SpecOrderedMap == InitOrderedMap /\ [][NextOrderedMap]_vars

\* the bytes a key is made of
KeyBytes == {"a", SP, LF, NUL, DEL, "C3", "A9"}

\* the byte strings of length n
RECURSIVE KeyTails(_)
KeyTails(n) ==
    IF n = 0 THEN {<<>>}
    ELSE {Append(t, b) : t \in KeyTails(n - 1), b \in KeyBytes}

\* n times the byte "a"
Padding(n) == [i \in 1..n |-> "a"]

\* keys: short ones, and ones whose last bytes lie around maxKeyLength
SanitizeKeys ==
    LET tails == UNION {KeyTails(n) : n \in 0..MaxKeyTail}
        pads  == {0} \cup {maxKeyLength - d : d \in 0..MaxKeyTail}
    IN  {Padding(n) \o t : n \in pads, t \in tails}

\* key = sanitizeKey(key), by the sanitizeKey the caller is built with
SanitizeKeyCall ==
    /\ entry = "sanitizeKey"
    /\ Len(keyTrace) <= MaxKeyCalls
    /\ keyTrace' = Append(keyTrace,
                          IF sanitizer = "ReplaceAll"
                          THEN sanitizeKey(keyTrace[Len(keyTrace)])
                          ELSE sanitizeKeyMap(keyTrace[Len(keyTrace)]))
    /\ UNCHANGED <<sanitizer, orderedMap, sets, ioVars, cfgVars, provVars, envVars, fileVars, input, pc, travVars, ret, runs, first, textVars>>

\* a key is about to be sanitized
InitSanitizeKey ==
    /\ entry = "sanitizeKey"
    /\ f = NewFlattener
    /\ input = ZeroNode
    /\ anchors = NoAnchors
    /\ yamlContent = EmptyString
    /\ filePath = EmptyString
    /\ fsObject = [kind |-> "missing", content |-> EmptyString]
    /\ data = NoData
    /\ providerData = Null
    /\ InitLocals
    /\ orderedMap = NewOrderedMap
    /\ sets = <<>>
    /\ reader = "idle"
    /\ readDone = FALSE
    /\ readContent = EmptyString
    /\ readErr = NoErr
    /\ sent = <<>>
    /\ sanitizer \in {"ReplaceAll", "Map"}
    /\ \E key \in SanitizeKeys : keyTrace = <<key>>

NextSanitizeKey == SanitizeKeyCall

SpecSanitizeKey == InitSanitizeKey /\ [][NextSanitizeKey]_vars

----------------------------------------------------------------------------
(* utils: ReadYAMLFile with readFileWithTimeout, and ValidateYAML.  Each    *)
(* starts a goroutine and waits for it in a select with a timer of 5 s.     *)

ErrNotExist        == "YAML file does not exist"
ErrIsDirectory     == "path is a directory, not a file"
ErrReadTimeout     == "failed to read YAML file: file reading timed out"
ErrInvalidYAML     == "invalid YAML"
ErrValidateTimeout == "YAML validation timed out, content may be too complex"

\* ReadYAMLFile: the validation of the path
ReadYAMLFile ==
    /\ pc = "ReadYAMLFile"
    /\ LET v == validateFilePath(filePath)
       IN  IF v.err # NoErr
           THEN /\ Return([result |-> EmptyString, err |-> v.err])
                /\ UNCHANGED cleanPath
           ELSE /\ cleanPath' = v.path
                /\ pc' = "ReadYAMLFileStat"
                /\ UNCHANGED <<ret, runs, first>>
    /\ UNCHANGED <<unitVars, cfgVars, provVars, envVars, input, travVars, textVars, fsLog>>

\* ReadYAMLFile: os.Stat(cleanPath), the checks of the file info, and
\* readFileWithTimeout up to its select statement
ReadYAMLFileStat ==
    /\ pc = "ReadYAMLFileStat"
    /\ fsLog' = Append(fsLog, <<"Stat", cleanPath>>)
    /\ LET info == Stat(cleanPath)
       IN  IF info.kind = "missing"
           THEN /\ Return([result |-> EmptyString, err |-> ErrNotExist])
                /\ UNCHANGED ioVars
           ELSE IF info.kind = "dir"
           THEN /\ Return([result |-> EmptyString, err |-> ErrIsDirectory])
                /\ UNCHANGED ioVars
           ELSE IF FileSize(info) > MaxYAMLSize
           THEN /\ Return([result |-> EmptyString, err |-> ErrFileSize])
                /\ UNCHANGED ioVars
           ELSE /\ reader' = "running"
                /\ readDone' = FALSE
                /\ readContent' = EmptyString
                /\ readErr' = NoErr
                /\ pc' = "readSelect"
                /\ UNCHANGED <<ret, runs, first, sent>>
    /\ UNCHANGED <<orderedMap, sets, sanitizer, keyTrace, cfgVars, provVars, envVars, input, travVars,
                   textVars, cleanPath>>

\* the goroutine: content, err = os.ReadFile(filePath)
ReaderReadFile ==
    /\ reader = "running"
    /\ ReadFileCompletes(Stat(cleanPath))
    /\ fsLog' = Append(fsLog, <<"ReadFile", cleanPath>>)
    /\ LET info == Stat(cleanPath)
       IN  IF info.kind = "file"
           THEN readContent' = info.content /\ readErr' = NoErr
           ELSE readContent' = EmptyString /\ readErr' = ErrFileRead
    /\ reader' = "read"
    /\ UNCHANGED <<orderedMap, sets, sanitizer, keyTrace, readDone, sent, cfgVars, provVars, envVars,
                   input, pc, travVars, ret, runs, first, textVars, cleanPath>>

\* the goroutine: close(done)
ReaderClose ==
    /\ reader = "read"
    /\ readDone' = TRUE
    /\ reader' = "exited"
    /\ UNCHANGED <<orderedMap, sets, sanitizer, keyTrace, readContent, readErr, sent, cfgVars, provVars,
                   envVars, fileVars, input, pc, travVars, ret, runs, first, textVars>>

\* select: case <-done, and ReadYAMLFile after readFileWithTimeout returned
ReadSelectDone ==
    /\ pc = "readSelect"
    /\ readDone
    /\ IF readErr # NoErr
       THEN Return([result |-> EmptyString, err |-> ErrFileRead])
       ELSE Return([result |-> sanitizeYAMLContent(readContent), err |-> NoErr])
    /\ UNCHANGED <<unitVars, cfgVars, provVars, envVars, fileVars, input, travVars, textVars>>

\* select: case <-time.After(timeout)
ReadSelectTimeout ==
    /\ pc = "readSelect"
    /\ Return([result |-> EmptyString, err |-> ErrReadTimeout])
    /\ UNCHANGED <<unitVars, cfgVars, provVars, envVars, fileVars, input, travVars, textVars>>

\* ValidateYAML up to the select statement
ValidateYAML ==
    /\ pc = "ValidateYAML"
    /\ IF arg = EmptyString
       THEN /\ Return([result |-> <<>>, err |-> ErrEmptyContent])
            /\ UNCHANGED <<sanitized, worker>>
       ELSE IF Len(arg) > MaxYAMLSize
       THEN /\ Return([result |-> <<>>, err |-> ErrContentSize])
            /\ UNCHANGED <<sanitized, worker>>
       ELSE /\ sanitized' = sanitizeYAMLContent(arg)
            /\ worker' = "validating"
            /\ pc' = "validateSelect"
            /\ UNCHANGED <<ret, runs, first>>
    /\ UNCHANGED <<unitVars, cfgVars, provVars, envVars, fileVars, input, travVars, arg, done, yamlNode,
                   perr, parserCalls>>

\* the goroutine: err := yaml.Unmarshal([]byte(content), &parsedYAML), after
\* which it stands at `done <- err`
ValidatorUnmarshal ==
    /\ worker = "validating"
    /\ sent' = <<Unmarshal(sanitized).err>>
    /\ parserCalls' = Append(parserCalls, sanitized)
    /\ worker' = "sending"
    /\ UNCHANGED <<orderedMap, sets, sanitizer, keyTrace, reader, readDone, readContent, readErr, cfgVars,
                   provVars, envVars, fileVars, input, pc, travVars, ret, runs, first, arg, sanitized,
                   done, yamlNode, perr>>

\* select: case err := <-done, the goroutine's send going through
ValidateSelectReceive ==
    /\ pc = "validateSelect"
    /\ worker = "sending"
    /\ Return([result |-> <<>>, err |-> IF sent[1] # NoErr THEN ErrInvalidYAML ELSE NoErr])
    /\ sent' = <<>>
    /\ worker' = "exited"
    /\ UNCHANGED <<orderedMap, sets, sanitizer, keyTrace, reader, readDone, readContent, readErr, cfgVars,
                   provVars, envVars, fileVars, input, travVars, arg, sanitized, done, yamlNode, perr,
                   parserCalls>>

\* select: case <-time.After(MaxParsingTime)
ValidateSelectTimeout ==
    /\ pc = "validateSelect"
    /\ Return([result |-> <<>>, err |-> ErrValidateTimeout])
    /\ UNCHANGED <<unitVars, cfgVars, provVars, envVars, fileVars, input, travVars, textVars>>

\* a caller calls ReadYAMLFile on a path
InitReadYAMLFile ==
    /\ entry = "ReadYAMLFile"
    /\ f = NewFlattener
    /\ input = ZeroNode
    /\ anchors = NoAnchors
    /\ yamlContent = EmptyString
    /\ filePath \in Paths
    /\ fsObject \in FsObjects
    /\ data = NoData
    /\ providerData = Null

\* a caller calls ValidateYAML on a text
InitValidateYAML ==
    /\ entry = "ValidateYAML"
    /\ f = NewFlattener
    /\ input = ZeroNode
    /\ anchors = NoAnchors
    /\ yamlContent \in Texts
    /\ filePath = EmptyString
    /\ fsObject = [kind |-> "missing", content |-> EmptyString]
    /\ data = NoData
    /\ providerData = Null

----------------------------------------------------------------------------
(* Reference definitions used by the properties: what a document says,     *)
(* computed from the tree alone.                                           *)

\* the path of every scalar leaf, in depth-first document order
RECURSIVE LeafPaths(_, _), PairLeafPaths(_, _, _), ItemLeafPaths(_, _, _)
LeafPaths(node, prefix) ==
    CASE node.Kind = "DocumentNode" ->
            IF Len(node.Content) > 0 THEN LeafPaths(node.Content[1], prefix) ELSE <<>>
      [] node.Kind = "MappingNode"  -> PairLeafPaths(node.Content, 0, prefix)
      [] node.Kind = "SequenceNode" -> ItemLeafPaths(node.Content, 0, prefix)
      [] node.Kind = "ScalarNode"   -> <<prefix>>
      [] node.Kind = "AliasNode"    ->
            IF node.Alias # NoAlias THEN LeafPaths(anchors[node.Alias], prefix) ELSE <<>>
      [] OTHER -> <<>>
PairLeafPaths(content, i, prefix) ==
    IF i + 1 >= Len(content) THEN <<>>
    ELSE LeafPaths(content[i + 2], buildPrefix(prefix, sanitizeKey(content[i + 1].Value)))
         \o PairLeafPaths(content, i + 2, prefix)
ItemLeafPaths(content, i, prefix) ==
    IF i >= Len(content) THEN <<>>
    ELSE LeafPaths(content[i + 1], indexPrefix(prefix, i)) \o ItemLeafPaths(content, i + 1, prefix)

\* a sequence without its repetitions: every element stays where it first occurs
RECURSIVE FirstOccurrences(_)
FirstOccurrences(s) ==
    IF s = <<>> THEN <<>>
    ELSE LET init == SubSeq(s, 1, Len(s) - 1)
             last == s[Len(s)]
         IN  IF \E i \in 1..Len(init) : init[i] = last
             THEN FirstOccurrences(init)
             ELSE Append(FirstOccurrences(init), last)

Succeeded == pc = "done" /\ ret.err = NoErr

Max(a, b) == IF a >= b THEN a ELSE b

\* how many mappings and sequences are nested inside one another: a scalar
\* counts 0, a container one more than the deepest of its children
RECURSIVE Nesting(_), DeepestChild(_, _)
Nesting(node) ==
    CASE node.Kind = "DocumentNode" -> IF Len(node.Content) > 0 THEN Nesting(node.Content[1]) ELSE 0
      [] node.Kind = "MappingNode"  -> 1 + DeepestChild(node.Content, TRUE)
      [] node.Kind = "SequenceNode" -> 1 + DeepestChild(node.Content, FALSE)
      [] node.Kind = "AliasNode"    -> IF node.Alias # NoAlias THEN Nesting(anchors[node.Alias]) ELSE 0
      [] OTHER -> 0
DeepestChild(content, pairs) ==
    IF content = <<>> THEN 0
    ELSE IF pairs /\ Len(content) % 2 = 1
         THEN DeepestChild(SubSeq(content, 1, Len(content) - 1), pairs)
         ELSE Max(Nesting(content[Len(content)]),
                  DeepestChild(SubSeq(content, 1, Len(content) - (IF pairs THEN 2 ELSE 1)), pairs))

\* every mapping has scalar keys and a value for every key
RECURSIVE WellFormed(_)
WellFormed(node) ==
    CASE node.Kind = "DocumentNode" -> \A i \in 1..Len(node.Content) : WellFormed(node.Content[i])
      [] node.Kind = "MappingNode"  ->
            /\ Len(node.Content) % 2 = 0
            /\ \A i \in 1..Len(node.Content) :
                  IF i % 2 = 1 THEN node.Content[i].Kind = "ScalarNode" ELSE WellFormed(node.Content[i])
      [] node.Kind = "SequenceNode" -> \A i \in 1..Len(node.Content) : WellFormed(node.Content[i])
      [] node.Kind = "AliasNode"    -> node.Alias # NoAlias /\ WellFormed(anchors[node.Alias])
      [] node.Kind = "ScalarNode"   -> TRUE
      [] OTHER -> FALSE

\* the number of entries the flattening of the document consists of
Entries(node) == Len(FirstOccurrences(LeafPaths(node, EmptyString)))

\* every scalar leaf with its path, in depth-first document order
RECURSIVE LeafNodes(_, _), PairLeafNodes(_, _, _), ItemLeafNodes(_, _, _)
LeafNodes(node, prefix) ==
    CASE node.Kind = "DocumentNode" ->
            IF Len(node.Content) > 0 THEN LeafNodes(node.Content[1], prefix) ELSE <<>>
      [] node.Kind = "MappingNode"  -> PairLeafNodes(node.Content, 0, prefix)
      [] node.Kind = "SequenceNode" -> ItemLeafNodes(node.Content, 0, prefix)
      [] node.Kind = "ScalarNode"   -> <<[path |-> prefix, node |-> node]>>
      [] node.Kind = "AliasNode"    ->
            IF node.Alias # NoAlias THEN LeafNodes(anchors[node.Alias], prefix) ELSE <<>>
      [] OTHER -> <<>>
PairLeafNodes(content, i, prefix) ==
    IF i + 1 >= Len(content) THEN <<>>
    ELSE LeafNodes(content[i + 2], buildPrefix(prefix, sanitizeKey(content[i + 1].Value)))
         \o PairLeafNodes(content, i + 2, prefix)
ItemLeafNodes(content, i, prefix) ==
    IF i >= Len(content) THEN <<>>
    ELSE LeafNodes(content[i + 1], indexPrefix(prefix, i)) \o ItemLeafNodes(content, i + 1, prefix)

\* the leaf at position i is the last one written at its path
LastWrite(leaves, i) == \A j \in (i + 1)..Len(leaves) : leaves[j].path # leaves[i].path

\* the value a result holds at a path
ValueAt(om, path) == Get(om, path)[1]

\* the key/value pairs of a list of tuples and of a map
PairsOfList(l) == {l[i] : i \in 1..Len(l)}
PairsOfMap(m)  == {<<k, m[k]>> : k \in DOMAIN m}

StrTrue  == <<"t", "r", "u", "e">>
StrFalse == <<"f", "a", "l", "s", "e">>

IsDigit(c) == c \in {"0", "1", "2", "3", "4", "5", "6", "7", "8", "9"}

\* canonical base-10 text of an integer: an optional sign, digits only, no
\* leading zero
CanonicalInt(v) ==
    LET d == IF v # <<>> /\ Head(v) = "-" THEN Tail(v) ELSE v
    IN  /\ d # <<>>
        /\ \A i \in 1..Len(d) : IsDigit(d[i])
        /\ Len(d) > 1 => d[1] # "0"

----------------------------------------------------------------------------
(* Properties *)

C3_DepthBoundary ==
    (pc = "done" /\ WellFormed(input) /\ input.Kind = "DocumentNode") =>
        /\ (Nesting(input) = f.MaxNestingDepth => ret.err # ErrDepthLimit)
        /\ (Nesting(input) = f.MaxNestingDepth + 1 /\ ret.err # ErrSizeLimit
                => ret.err = ErrDepthLimit)

\* C4 (as claimed): with maximum result size N, a document of exactly N
\* entries succeeds and a document of N+1 entries fails with the size limit
\* (documents that stay within the depth limit and write no path twice).
C4_SizeBoundary ==
    (pc = "done" /\ WellFormed(input) /\ input.Kind = "DocumentNode"
                 /\ Nesting(input) <= f.MaxNestingDepth
                 /\ Len(LeafPaths(input, EmptyString)) = Entries(input)) =>
        /\ (Entries(input) = f.MaxResultSize => ret.err = NoErr)
        /\ (Entries(input) = f.MaxResultSize + 1 => ret.err = ErrSizeLimit)

\* C5: once a flatten operation has failed it visits no further node and
\* writes no further entry, and what it returns on failure carries no
\* result container.
C5_FailFast ==
    [][/\ (pc = "traverse" /\ err # NoErr) => (result' = result /\ visited' = visited)
       /\ (pc' = "done" /\ ret'.err # NoErr) => ret'.result = <<>>
       /\ (pc = "done" /\ pc' = "done" /\ ret.err # NoErr)
             => (result' = result /\ visited' = visited /\ ret' = ret)]_vars

\* a traversal that failed after it had written an entry and before it had
\* reached every leaf, and returned no container
C5_Witness ==
    /\ pc = "done"
    /\ ret.err \in {ErrSizeLimit, ErrDepthLimit, ErrNonScalarKey}
    /\ ret.result = <<>>
    /\ OMLen(result) >= 1
    /\ Entries(input) > OMLen(result)

\* a path has an element that is `..`
HasDotDotSegment(path) == \E i \in 1..Len(Segments(path)) : Segments(path)[i] = DotDot

\* C6: for a path whose cleaned form has a `..` element the file entry point
\* makes no file-system call at any time and returns the directory
\* traversal error.
C6_TraversalRejectedBeforeAccess ==
    (entry = "FlattenYAMLFile" /\ HasDotDotSegment(Clean(filePath))) =>
        /\ fsLog = <<>>
        /\ pc = "done" => (ret.err = ErrTraversal /\ ret.result = <<>>)

\* the file entry point has returned for a path that cleaning changed and
\* that still leaves the working directory
C6_Witness ==
    /\ entry = "FlattenYAMLFile"
    /\ pc = "done"
    /\ HasDotDotSegment(Clean(filePath))
    /\ Clean(filePath) # filePath
    /\ fsObject.kind = "file"
    /\ ret.err = ErrTraversal

\* the function has responded and the data source has then responded on the
\* same content, neither being cut short by the parsing timeout
BothResponded ==
    /\ entry = "Read"
    /\ pc = "responded"
    /\ runResp # NoRunResponse
    /\ runResp.Error # Null => runResp.Error[1].cause # ErrParseTimeout
    /\ readResp.Diagnostics # <<>> => readResp.Diagnostics[1].cause # ErrParseTimeout

\* C7 (as claimed): on the same YAML content, with no provider settings, the
\* function and the data source both fail or both succeed with the same set
\* of key/value pairs.
C7_DataSourceEqualsFunction ==
    (BothResponded /\ providerData = Null /\ ~Contains(yamlContent, <<NUL>>)) =>
        /\ (runResp.Error # Null) <=> (readResp.Diagnostics # <<>>)
        /\ runResp.Error = Null =>
              PairsOfList(runResp.Result[1]) = PairsOfMap(readResp.State[1].Flattened)

\* C8 (as claimed): with escaping off, the value written for a string-typed
\* scalar is its text unchanged and the value written for a null scalar is
\* the empty string.
C8_StringsUnchangedNullsEmpty ==
    (Succeeded /\ ~f.EscapeNewlines) =>
        LET leaves == LeafNodes(input, EmptyString)
        IN  \A i \in 1..Len(leaves) :
               LastWrite(leaves, i) =>
                  /\ leaves[i].node.Tag = "!!str"
                        => ValueAt(ret.result[1], leaves[i].path) = leaves[i].node.Value
                  /\ leaves[i].node.Tag = "!!null"
                        => ValueAt(ret.result[1], leaves[i].path) = EmptyString

\* C9 (as claimed): the value written for a boolean scalar is "true" or
\* "false" and the value written for an integer scalar is its canonical
\* base-10 text, however the scalar is spelled.
C9_CanonicalBoolInt ==
    Succeeded =>
        LET leaves == LeafNodes(input, EmptyString)
        IN  \A i \in 1..Len(leaves) :
               LastWrite(leaves, i) =>
                  /\ leaves[i].node.Tag = "!!bool"
                        => ValueAt(ret.result[1], leaves[i].path) \in {StrTrue, StrFalse}
                  /\ leaves[i].node.Tag = "!!int"
                        => CanonicalInt(ValueAt(ret.result[1], leaves[i].path))

RECURSIVE EmptyPaths(_, _), PairEmptyPaths(_, _, _), ItemEmptyPaths(_, _, _)
EmptyPaths(node, prefix) ==
    CASE node.Kind = "DocumentNode" ->
            IF Len(node.Content) > 0 THEN EmptyPaths(node.Content[1], prefix) ELSE <<>>
      [] node.Kind = "MappingNode"  ->
            IF Len(node.Content) < 2 THEN <<prefix>> ELSE PairEmptyPaths(node.Content, 0, prefix)
      [] node.Kind = "SequenceNode" ->
            IF node.Content = <<>> THEN <<prefix>> ELSE ItemEmptyPaths(node.Content, 0, prefix)
      [] node.Kind = "AliasNode"    ->
            IF node.Alias # NoAlias THEN EmptyPaths(anchors[node.Alias], prefix) ELSE <<>>
      [] OTHER -> <<>>
PairEmptyPaths(content, i, prefix) ==
    IF i + 1 >= Len(content) THEN <<>>
    ELSE EmptyPaths(content[i + 2], buildPrefix(prefix, sanitizeKey(content[i + 1].Value)))
         \o PairEmptyPaths(content, i + 2, prefix)
ItemEmptyPaths(content, i, prefix) ==
    IF i >= Len(content) THEN <<>>
    ELSE EmptyPaths(content[i + 1], indexPrefix(prefix, i)) \o ItemEmptyPaths(content, i + 1, prefix)

\* the elements of a sequence
Range(s) == {s[i] : i \in 1..Len(s)}

\* C11: in a successful result no key stands for an empty mapping or an empty
\* sequence (a key at such a path is the path of a scalar leaf as well), the
\* result has as many entries as the scalar leaves have distinct paths, and a
\* document whose root is `{}` or `[]` flattens to the empty result.
C11_EmptyContainersNoEntries ==
    /\ Succeeded =>
          /\ \A p \in Range(EmptyPaths(input, EmptyString)) :
                Get(ret.result[1], p)[2] => p \in Range(LeafPaths(input, EmptyString))
          /\ OMLen(ret.result[1]) = Entries(input)
    /\ (pc = "done" /\ input \in {DocumentNode(<<EmptyMap>>), DocumentNode(<<EmptySeq>>)})
          => ret = [result |-> <<NewOrderedMap>>, err |-> NoErr]

\* a successful run over a document that has an empty container beside a
\* scalar leaf
C11_Witness ==
    /\ Succeeded
    /\ OMLen(ret.result[1]) >= 1
    /\ EmptyPaths(input, EmptyString) # <<>>
    /\ EmptyPaths(input, EmptyString)[1] # EmptyString

\* the keys of the Set calls made so far, in order
SetCallKeys == [i \in 1..Len(sets) |-> sets[i][1]]

\* the value of the most recent Set call on key k
LastValueSet(k) ==
    LET i == CHOOSE n \in 1..Len(sets) :
                 sets[n][1] = k /\ \A m \in (n + 1)..Len(sets) : sets[m][1] # k
    IN  sets[i][2]

\* what holds of an OrderedMap after the Set calls made so far
OrderedMapConsistent ==
    entry = "OrderedMap" =>
        /\ \A i, j \in 1..Len(Keys(orderedMap)) :
              Keys(orderedMap)[i] = Keys(orderedMap)[j] => i = j
        /\ Keys(orderedMap) = FirstOccurrences(SetCallKeys)
        /\ OMLen(orderedMap) = Cardinality(Range(SetCallKeys))
        /\ DOMAIN orderedMap.values = Range(Keys(orderedMap))
        /\ \A k \in OMKeys :
              Get(orderedMap, k) = IF k \in Range(SetCallKeys) THEN <<LastValueSet(k), TRUE>>
                                                               ELSE <<EmptyString, FALSE>>

\* what a Set call on a key the map already holds changes
SetOnExistingKey ==
    (entry = "OrderedMap" /\ Len(sets') = Len(sets) + 1
                          /\ sets'[Len(sets')][1] \in Range(Keys(orderedMap))) =>
        /\ Keys(orderedMap') = Keys(orderedMap)
        /\ OMLen(orderedMap') = OMLen(orderedMap)
        /\ \A k \in Range(Keys(orderedMap)) \ {sets'[Len(sets')][1]} :
              Get(orderedMap', k) = Get(orderedMap, k)
        /\ Get(orderedMap', sets'[Len(sets')][1]) = <<sets'[Len(sets')][2], TRUE>>

\* C12: after any sequence of Set calls Keys() has no duplicate and lists the
\* distinct keys in order of their first Set, Len() is the number of distinct
\* keys, the lookup table has exactly the keys of Keys(), and Get(k) returns
\* the value of the most recent Set(k, _); a Set on an existing key changes
\* only that key's value and leaves the key order and Len() as they were.
C12_OrderedMapInvariants ==
    []OrderedMapConsistent /\ [][SetOnExistingKey]_vars

\* a key was set, another key was set, and the first key was set again to
\* another value
C12_Witness ==
    /\ entry = "OrderedMap"
    /\ Len(sets) >= 3
    /\ sets[1][1] = sets[3][1]
    /\ sets[1][2] # sets[3][2]
    /\ sets[2][1] # sets[1][1]

----------------------------------------------------------------------------
(* The text entry point on its own, with the scheduling the Go runtime     *)
(* gives: the calling goroutine always gets to run and the timer of the    *)
(* select always fires; nothing is assumed of the parsing goroutine, which *)
(* may never get through yaml.Unmarshal.  The texts yaml.Unmarshal is      *)
(* modelled for parse to a scalar at most, so the steps of the mapping and *)
(* sequence loops are never enabled here.                                  *)

\* the steps of the goroutine that called FlattenYAMLString
StringCaller ==
    \/ FlattenYAMLString
    \/ SelectDone
    \/ SelectTimeout
    \/ FlattenYAMLStringParsed
    \/ FlattenYAMLNode
    \/ flattenNodeWithDepth
    \/ FlattenYAMLNodeReturn

InitText ==
    /\ InitString
    /\ InitLocals
    /\ InitUnits

NextText ==
    \/ StringCaller
    \/ WorkerUnmarshal
    \/ WorkerClose
    \/ Rerun

SpecText == InitText /\ [][NextText]_vars /\ WF_vars(StringCaller)

\* C13: every call of the text entry point returns, and a call whose parser
\* never completes returns the timeout error.
C13_TextEntryPointReturns ==
    /\ (pc = "FlattenYAMLString") ~> (pc = "done")
    /\ [](((pc = "select") /\ [](worker = "running"))
              => <>(pc = "done" /\ ret.err = ErrParseTimeout))

\* the call has returned the timeout error while the parser is still running
C13_Witness ==
    /\ entry = "FlattenYAMLString"
    /\ pc = "done"
    /\ ret.err = ErrParseTimeout
    /\ worker = "running"

\* a control character among the bytes of s
HasControl(s) == \E i \in 1..Len(s) : IsControl(s[i])

\* every byte of 0x80 and above belongs to a well-formed rune
ValidUTF8(s) ==
    \A i \in 1..Len(s) :
        s[i] \in HighBytes => Continues(s, i) \/ Starts2(s, i) \/ Starts3(s, i)

\* C14: key sanitization is idempotent: sanitizing a sanitized key changes
\* nothing, whatever the key, keys longer than the maximum key length and keys
\* with white space or control characters around the truncation point included
C14_SanitizeIdempotent ==
    Len(keyTrace) >= 3 => keyTrace[3] = keyTrace[2]

\* C15: the result of sanitizeKey holds no control character and is at most
\* 1000 long, for every input key
C15_NoControlCharacter ==
    Len(keyTrace) >= 2 =>
        /\ ~HasControl(keyTrace[2])
        /\ Len(keyTrace[2]) <= maxKeyLength

RECURSIVE Shape(_, _), PairShape(_, _, _), ItemShape(_, _, _)
Shape(node, at) ==
    CASE node.Kind = "DocumentNode" ->
            IF Len(node.Content) > 0 THEN Shape(node.Content[1], at) ELSE <<>>
      [] node.Kind = "MappingNode"  ->
            IF Len(node.Content) < 2 THEN <<[at |-> at, leaf |-> "empty"]>>
            ELSE PairShape(node.Content, 0, at)
      [] node.Kind = "SequenceNode" ->
            IF node.Content = <<>> THEN <<[at |-> at, leaf |-> "empty"]>>
            ELSE ItemShape(node.Content, 0, at)
      [] node.Kind = "ScalarNode"   -> <<[at |-> at, leaf |-> "scalar"]>>
      [] node.Kind = "AliasNode"    ->
            IF node.Alias # NoAlias THEN Shape(anchors[node.Alias], at) ELSE <<>>
      [] OTHER -> <<>>
PairShape(content, i, at) ==
    IF i + 1 >= Len(content) THEN <<>>
    ELSE Shape(content[i + 2], Append(at, [key |-> content[i + 1].Value]))
         \o PairShape(content, i + 2, at)
ItemShape(content, i, at) ==
    IF i >= Len(content) THEN <<>>
    ELSE Shape(content[i + 1], Append(at, [index |-> i])) \o ItemShape(content, i + 1, at)

\* the number a text of decimal digits stands for
RECURSIVE DecimalValue(_)
DecimalValue(s) ==
    IF s = <<>> THEN 0
    ELSE 10 * DecimalValue(SubSeq(s, 1, Len(s) - 1))
            + (CHOOSE n \in 0..9 : Digit(n) = s[Len(s)])

\* the first position of s from `from` on that holds one of the bytes `stops`,
\* Len(s) + 1 when there is none
RECURSIVE FirstOf(_, _, _)
FirstOf(s, from, stops) ==
    IF from > Len(s) \/ s[from] \in stops THEN from ELSE FirstOf(s, from + 1, stops)

\* a path split on "." and on the bracket boundaries: the keys and indices it
\* is made of
RECURSIVE SplitPath(_, _)
SplitPath(p, atRoot) ==
    IF p = <<>> THEN <<>>
    ELSE IF p[1] = "["
         THEN LET close == FirstOf(p, 2, {"]"})
              IN  <<[index |-> DecimalValue(SubSeq(p, 2, close - 1))]>>
                     \o SplitPath(SubSeq(p, close + 1, Len(p)), FALSE)
         ELSE LET from == IF p[1] = "." /\ ~atRoot THEN 2 ELSE 1
                  end  == FirstOf(p, from, {".", "["})
              IN  <<[key |-> SubSeq(p, from, end - 1)]>>
                     \o SplitPath(SubSeq(p, end, Len(p)), FALSE)

\* the mapping keys of a document, mapping by mapping
RECURSIVE KeyLists(_)
KeyLists(node) ==
    CASE node.Kind = "DocumentNode" -> UNION {KeyLists(node.Content[i]) : i \in 1..Len(node.Content)}
      [] node.Kind = "MappingNode"  ->
            {[i \in 1..(Len(node.Content) \div 2) |-> node.Content[2 * i - 1].Value]}
            \cup UNION {KeyLists(node.Content[2 * i]) : i \in 1..(Len(node.Content) \div 2)}
      [] node.Kind = "SequenceNode" -> UNION {KeyLists(node.Content[i]) : i \in 1..Len(node.Content)}
      [] node.Kind = "AliasNode"    ->
            IF node.Alias # NoAlias THEN KeyLists(anchors[node.Alias]) ELSE {}
      [] OTHER -> {}

\* no mapping key contains a dot or a bracket
NoDotOrBracketInKeys(node) ==
    \A ks \in KeyLists(node) : \A i \in 1..Len(ks) :
        \A j \in 1..Len(ks[i]) : ks[i][j] \notin {".", "[", "]"}

\* every key is a non-empty text of at most maxKeyLength bytes without NUL,
\* and no mapping has the same key twice
DistinctPlainKeys(node) ==
    \A ks \in KeyLists(node) :
        /\ \A i \in 1..Len(ks) :
              ks[i] # <<>> /\ Len(ks[i]) <= maxKeyLength /\ ~Contains(ks[i], <<NUL>>)
        /\ \A i, j \in 1..Len(ks) : ks[i] = ks[j] => i = j

\* the positions the keys of a result stand for
SplitKeys(om) == {[at |-> SplitPath(k, TRUE), leaf |-> "scalar"] : k \in Range(Keys(om))}

RECURSIVE PathOf(_)
PathOf(at) ==
    IF at = <<>> THEN EmptyString
    ELSE LET parent == PathOf(SubSeq(at, 1, Len(at) - 1))
             seg    == at[Len(at)]
         IN  IF "key" \in DOMAIN seg
             THEN IF parent = EmptyString THEN sanitizeKey(seg.key)
                  ELSE parent \o <<".">> \o sanitizeKey(seg.key)
             ELSE parent \o <<"[">> \o Itoa(seg.index) \o <<"]">>

\* the node a call was made for is the child c, or what the alias c refers to
IsChild(frame, c) ==
    frame.fn = "flattenNodeWithDepth" =>
        \/ frame.node = c
        \/ c.Kind = "AliasNode" /\ c.Alias # NoAlias /\ frame.node = anchors[c.Alias]

\* the call made for a child carries the path the rules give it
ChildPathByRule(parent, child) ==
    CASE parent.fn = "flattenMappingNodeWithDepth" ->
            LET k == sanitizeKey(parent.node.Content[parent.i - 1].Value)
            IN  /\ IsChild(child, parent.node.Content[parent.i])
                /\ child.prefix = IF parent.prefix = EmptyString THEN k
                                  ELSE parent.prefix \o <<".">> \o k
      [] parent.fn = "flattenSequenceNodeWithDepth" ->
            LET digits == SubSeq(child.prefix, Len(parent.prefix) + 2, Len(child.prefix) - 1)
            IN  /\ IsChild(child, parent.node.Content[parent.i])
                /\ child.prefix = parent.prefix \o <<"[">> \o digits \o <<"]">>
                /\ CanonicalInt(digits)
                /\ DecimalValue(digits) = parent.i - 1
      [] OTHER -> TRUE

\* C18: child paths are built by these rules only: a mapping key k under a
\* non-empty parent p gives p + "." + sanitize(k), a mapping key at root level
\* gives sanitize(k) without a leading dot, and item i of a sequence under p,
\* counted from 0, gives p + "[" + i + "]"; this holds of every call the
\* traversal makes for a child and of every key of a successful result
C18_ChildPathRules ==
    /\ \A j \in 1..(Len(stack) - 1) : ChildPathByRule(stack[j], stack[j + 1])
    /\ Succeeded =>
          Range(Keys(ret.result[1])) =
              {PathOf(l.at) : l \in {m \in Range(Shape(input, <<>>)) : m.leaf = "scalar"}}

\* the traversal stands at a mapping key under the second item of a sequence
\* that is itself the value of a key at root level
C18_Witness ==
    \E j, k, l \in 1..(Len(stack) - 1) :
        /\ stack[j].fn = "flattenMappingNodeWithDepth"
        /\ stack[j].prefix = EmptyString
        /\ stack[k].fn = "flattenSequenceNodeWithDepth"
        /\ stack[k].prefix # EmptyString
        /\ stack[k].i = 2
        /\ stack[l].fn = "flattenMappingNodeWithDepth"
        /\ stack[l].prefix # EmptyString
        /\ stack[Len(stack)].fn = "flattenNodeWithDepth"

\* C19: the engine never silently drops data: whenever flattening succeeds,
\* the path of every scalar leaf reachable in the document tree is a key of the
\* result; a leaf is left out only when the whole operation fails, and then
\* no result is returned at all
C19_NoSilentDrop ==
    pc = "done" =>
        IF ret.err = NoErr
        THEN \A p \in Range(LeafPaths(input, EmptyString)) : Get(ret.result[1], p)[2]
        ELSE ret.result = <<>>

\* a successful run over a document with three scalar leaves or more, nested
\* two levels or more
C19_Witness ==
    /\ Succeeded
    /\ Len(LeafPaths(input, EmptyString)) >= 3
    /\ Nesting(input) >= 2
    /\ \A p \in Range(LeafPaths(input, EmptyString)) : Get(ret.result[1], p)[2]

\* C20: in every state of a traversal, and in every successful result, the
\* result container holds at most MaxResultSize entries
C20_ResultSizeBounded ==
    /\ pc = "traverse" => OMLen(result) <= f.MaxResultSize
    /\ Succeeded => OMLen(ret.result[1]) <= f.MaxResultSize

\* a traversal has filled the result up to MaxResultSize and been stopped at
\* the next node
C20_Witness ==
    /\ pc = "traverse"
    /\ err = ErrSizeLimit
    /\ OMLen(result) = f.MaxResultSize

\* C21: whenever the text entry point succeeds, the result is not nil and
\* every key in it is a non-empty string
C21_TextResultKeysNonEmpty ==
    (entry = "FlattenYAMLString" /\ Succeeded) =>
        /\ ret.result # <<>>
        /\ \A key \in Range(Keys(ret.result[1])) : key # EmptyString

\* the data source has done nothing but answer: no parse, no file access, no
\* flattening, no state
NothingDone ==
    /\ pc \in {"Read", "responded"}
    /\ parserCalls = <<>>
    /\ fsLog = <<>>
    /\ visited = 0
    /\ stack = <<>>
    /\ readResp.State = Null

----------------------------------------------------------------------------
(* The entry points that read a file or start a goroutine with a timer,    *)
(* under the scheduling of SpecText.                                       *)

\* ParseYAML up to the select statement; its goroutine runs the two
\* statements of the goroutine of FlattenYAMLString, on parsedYAML
ParseYAML ==
    /\ pc = "ParseYAML"
    /\ IF arg = EmptyString
       THEN /\ Return([result |-> <<>>, err |-> ErrEmptyContent])
            /\ UNCHANGED <<sanitized, worker>>
       ELSE IF Len(arg) > MaxYAMLSize
       THEN /\ Return([result |-> <<>>, err |-> ErrContentSize])
            /\ UNCHANGED <<sanitized, worker>>
       ELSE /\ sanitized' = sanitizeYAMLContent(arg)
            /\ worker' = "running"
            /\ pc' = "parseSelect"
            /\ UNCHANGED <<ret, runs, first>>
    /\ UNCHANGED <<unitVars, cfgVars, provVars, envVars, fileVars, input, travVars, arg, done, yamlNode,
                   perr, parserCalls>>

\* select: case <-done, and the error check after it
ParseSelectDone ==
    /\ pc = "parseSelect"
    /\ done
    /\ IF perr # NoErr
       THEN Return([result |-> <<>>, err |-> ErrParse])
       ELSE Return([result |-> <<yamlNode>>, err |-> NoErr])
    /\ UNCHANGED <<unitVars, cfgVars, provVars, envVars, fileVars, input, travVars, textVars>>

\* select: case <-time.After(MaxParsingTime)
ParseSelectTimeout ==
    /\ pc = "parseSelect"
    /\ Return([result |-> <<>>, err |-> ErrParseTimeout])
    /\ UNCHANGED <<unitVars, cfgVars, provVars, envVars, fileVars, input, travVars, textVars>>

\* a caller calls ParseYAML on a text
InitParseYAML ==
    /\ entry = "ParseYAML"
    /\ f = NewFlattener
    /\ input = ZeroNode
    /\ anchors = NoAnchors
    /\ yamlContent \in Texts
    /\ filePath = EmptyString
    /\ fsObject = [kind |-> "missing", content |-> EmptyString]
    /\ data = NoData
    /\ providerData = Null

\* the steps of the calling goroutine once the path has been validated
IOCallerAfterPath ==
    \/ FlattenYAMLFileStat \/ FlattenYAMLFileRead
    \/ StringCaller
    \/ ReadYAMLFileStat \/ ReadSelectDone \/ ReadSelectTimeout
    \/ ValidateYAML \/ ValidateSelectReceive \/ ValidateSelectTimeout
    \/ ParseYAML \/ ParseSelectDone \/ ParseSelectTimeout

\* the steps of the goroutine that called an entry point
IOCaller ==
    \/ FlattenYAMLFile \/ ReadYAMLFile
    \/ IOCallerAfterPath

InitIO ==
    /\ InitFile \/ InitReadYAMLFile \/ InitValidateYAML \/ InitParseYAML
    /\ InitLocals
    /\ InitUnits

NextIO ==
    \/ IOCaller
    \/ WorkerUnmarshal \/ WorkerClose
    \/ ReaderReadFile \/ ReaderClose
    \/ ValidatorUnmarshal

\* the steps by which a goroutine that has its result says so
WorkerSignals == WorkerClose \/ ReaderClose

\* the calling goroutine is scheduled and its timers fire from the stat of
\* the file on, and a goroutine that has its result is scheduled to close its
\* channel; no parse and no read is assumed to come to an end
SpecIO == InitIO /\ [][NextIO]_vars /\ WF_vars(IOCallerAfterPath) /\ WF_vars(WorkerSignals)

----------------------------------------------------------------------------
(* The file reader and the goroutines behind the timers *)

\* the calls of os.ReadFile made so far
ReadFileCalls == {i \in 1..Len(fsLog) : fsLog[i][1] = "ReadFile"}

\* what os.Stat finds at the cleaned path: nothing, a directory, a file
\* larger than the maximum size of the entry point, or a file that may be read
TargetClass ==
    LET info == Stat(cleanPath)
    IN  IF info.kind = "missing" THEN "missing"
        ELSE IF info.kind = "dir" THEN "dir"
        ELSE IF FileSize(info) > (IF entry = "FlattenYAMLFile" THEN f.MaxYAMLSize ELSE MaxYAMLSize)
        THEN "large"
        ELSE "readable"

\* the errors that name each class; no error names two classes
ClassErrors(class) ==
    IF class = "missing" THEN {ErrNotExist, ErrFileAccess}
    ELSE IF class = "dir" THEN {ErrIsDirectory}
    ELSE {ErrFileSize}

\* C23: the file reader classifies the target before reading it: a missing
\* file, a directory and a file larger than the maximum size each fail with
\* an error of their own, and os.ReadFile is never called on such a target,
\* neither by the caller nor by a reading goroutine
C23_ClassifiedBeforeRead ==
    (/\ entry \in {"ReadYAMLFile", "FlattenYAMLFile"}
     /\ fsLog # <<>>
     /\ TargetClass # "readable") =>
        /\ ReadFileCalls = {}
        /\ reader = "idle"
        /\ pc = "done" => ret.err \in ClassErrors(TargetClass)

\* the caller stands at the read of a file
AtFileRead == pc \in {"ReadFile", "readSelect"}

\* C24: the read of the file is bounded in time: a call that has come to the
\* read of the file returns, and when the read never completes (a FIFO
\* nobody writes to) it returns the timeout error
C24_FileReadReturnsInTime ==
    /\ AtFileRead ~> (pc = "done")
    /\ [](((entry = "FlattenYAMLFile" \/ entry = "ReadYAMLFile")
            /\ AtFileRead /\ ~ReadFileCompletes(Stat(cleanPath)))
              => <>(pc = "done" /\ ret.err = ErrReadTimeout))

\* the steps of the goroutines that the entry points start
WorkerSteps ==
    \/ WorkerUnmarshal \/ WorkerClose
    \/ ReaderReadFile \/ ReaderClose
    \/ ValidatorUnmarshal

\* C25: an abandoned goroutine cannot corrupt the caller: the caller reads
\* the parsed node and its error, the file content and its error, only when
\* the goroutine has written them and closed done, and the validation error
\* only from the goroutine standing at its send; once the caller has
\* returned, on the timer or otherwise, no step of a goroutine changes what
\* it returned
C25_AbandonedWorkerHarmless ==
    /\ [][FlattenYAMLStringParsed => (done /\ worker = "exited")]_vars
    /\ [][ParseSelectDone => (done /\ worker = "exited")]_vars
    /\ [][ReadSelectDone => (readDone /\ reader = "exited")]_vars
    /\ [][ValidateSelectReceive => (worker = "sending" /\ sent # <<>>)]_vars
    /\ [][(pc = "done" /\ WorkerSteps) => (pc' = pc /\ ret' = ret)]_vars

\* the call returned the timeout error and the parsing goroutine has gone on
\* to write the node and close done
C25_Witness ==
    /\ pc = "done"
    /\ ret = [result |-> <<>>, err |-> ErrParseTimeout]
    /\ worker = "exited"
    /\ done
    /\ yamlNode # ZeroNode

\* C26: every goroutine started by ParseYAML, ValidateYAML,
\* readFileWithTimeout and FlattenYAMLString terminates once its parse or its
\* read has finished, whether the caller waited for it or returned on the
\* timer: none stays blocked at the signal of its completion
C26_WorkersTerminate ==
    /\ (worker = "unmarshalled") ~> (worker = "exited")
    /\ (reader = "read") ~> (reader = "exited")
    /\ (worker = "sending") ~> (worker = "exited")

----------------------------------------------------------------------------
(* Trees with a cycle.  The parser sets the anchor of a mapping or sequence *)
(* before it reads the children, so `&x {a: *x}` gives a mapping whose      *)
(* value is an alias to the mapping itself; a caller of FlattenYAMLNode can *)
(* also build an alias to itself or to the document around it.  The calls   *)
(* of flattenNodeWithDepth nest on the goroutine's stack, which holds       *)
(* MaxVisits visits here: one more and the runtime ends the program.        *)

MaxVisits == 4 * (MaxDepthCfg + 2)

SelfMapping(pairs) == MappingNode(pairs \o <<KeyB, AliasNode("x")>>)

SelfSequence(items) == SequenceNode(items \o <<AliasNode("x")>>)

\* trees in which the alias `x` leads back to a node around it
CyclicDocs ==
    {[root |-> DocumentNode(<<t>>), anchors |-> [n \in {"x"} |-> t]] :
        t \in {SelfMapping(<<>>), SelfMapping(<<KeyA, StrX>>),
               SelfSequence(<<>>), SelfSequence(<<StrX>>)}}
    \cup {[root |-> AliasNode("x"), anchors |-> [n \in {"x"} |-> AliasNode("x")]],
          [root |-> DocumentNode(<<AliasNode("x")>>),
           anchors |-> [n \in {"x"} |-> DocumentNode(<<AliasNode("x")>>)]]}

\* a caller calls FlattenYAMLNode on a tree with a cycle
InitCyclic ==
    /\ entry = "FlattenYAMLNode"
    /\ f \in [MaxNestingDepth : 1..MaxDepthCfg, MaxResultSize : 1..MaxSizeCfg,
              MaxYAMLSize : {MaxTextLen}, EscapeNewlines : {FALSE}]
    /\ \E d \in CyclicDocs : input = d.root /\ anchors = d.anchors
    /\ yamlContent = EmptyString
    /\ filePath = EmptyString
    /\ fsObject = [kind |-> "missing", content |-> EmptyString]
    /\ data = NoData
    /\ providerData = Null
    /\ InitLocals
    /\ InitUnits

NextCyclic ==
    \/ FlattenYAMLNode
    \/ visited < MaxVisits /\ flattenNodeWithDepth
    \/ flattenMappingNodeWithDepth
    \/ flattenSequenceNodeWithDepth
    \/ FlattenYAMLNodeReturn

\* the traversal runs on the calling goroutine, which is always scheduled
SpecCyclic == InitCyclic /\ [][NextCyclic]_vars /\ WF_vars(NextCyclic)

\* C27: flattening terminates on every tree, and on a tree with a cycle it
\* ends with the depth limit error
C27_CyclicTreeEndsWithDepthLimit ==
    /\ (pc = "FlattenYAMLNode") ~> (pc = "done")
    /\ [](pc = "done" => ret.err = ErrDepthLimit)

----------------------------------------------------------------------------
(* Aliases as substitution *)

\* an alias with a target somewhere in the tree
RECURSIVE HasAlias(_)
HasAlias(node) ==
    \/ node.Kind = "AliasNode" /\ node.Alias # NoAlias
    \/ \E i \in 1..Len(node.Content) : HasAlias(node.Content[i])

\* the tree with every alias replaced by a copy of its target
RECURSIVE Substituted(_)
Substituted(node) ==
    IF node.Kind = "AliasNode" /\ node.Alias # NoAlias
    THEN Substituted(anchors[node.Alias])
    ELSE [node EXCEPT !.Content = [i \in 1..Len(node.Content) |-> Substituted(node.Content[i])]]

\* the traversal of a tree without aliases, written as a function of the
\* tree: the result so far and the error of the visit of node
RECURSIVE VisitOf(_, _, _, _), PairsOf(_, _, _, _, _), ItemsOf(_, _, _, _, _)
VisitOf(node, prefix, res, depth) ==
    LET v == validateDepthAndSize(depth, OMLen(res))
    IN  IF v # NoErr THEN [result |-> res, err |-> v]
        ELSE CASE node.Kind = "DocumentNode" ->
                     IF Len(node.Content) > 0
                     THEN VisitOf(node.Content[1], prefix, res, depth)
                     ELSE [result |-> res, err |-> NoErr]
               [] node.Kind = "MappingNode"  -> PairsOf(node.Content, 0, prefix, res, depth + 1)
               [] node.Kind = "SequenceNode" -> ItemsOf(node.Content, 0, prefix, res, depth + 1)
               [] node.Kind = "ScalarNode"   -> [result |-> Emit(res, prefix, node), err |-> NoErr]
               [] OTHER -> [result |-> res, err |-> NoErr]
PairsOf(content, i, prefix, res, depth) ==
    IF i + 1 >= Len(content) THEN [result |-> res, err |-> NoErr]
    ELSE IF content[i + 1].Kind # "ScalarNode" THEN [result |-> res, err |-> ErrNonScalarKey]
    ELSE LET r == VisitOf(content[i + 2], buildPrefix(prefix, sanitizeKey(content[i + 1].Value)),
                          res, depth)
         IN  IF r.err # NoErr THEN r ELSE PairsOf(content, i + 2, prefix, r.result, depth)
ItemsOf(content, i, prefix, res, depth) ==
    IF i >= Len(content) THEN [result |-> res, err |-> NoErr]
    ELSE LET r == VisitOf(content[i + 1], indexPrefix(prefix, i), res, depth)
         IN  IF r.err # NoErr THEN r ELSE ItemsOf(content, i + 1, prefix, r.result, depth)

\* what FlattenYAMLNode returns for a tree without aliases
OutcomeOf(tree) ==
    LET r == VisitOf(tree, EmptyString, NewOrderedMap, 0)
    IN  IF r.err # NoErr THEN [result |-> <<>>, err |-> r.err]
        ELSE [result |-> <<r.result>>, err |-> NoErr]

----------------------------------------------------------------------------
(* The guards of the text entry point *)

\* C29: in the text entry point the guards come before the parser, in a
\* fixed order: a text longer than the maximum size is rejected with the size
\* error and no parsing goroutine is started for it, and no text handed to
\* yaml.Unmarshal holds a NUL byte
C29_GuardsBeforeParser ==
    entry = "FlattenYAMLString" =>
        /\ Len(yamlContent) > f.MaxYAMLSize =>
              /\ parserCalls = <<>>
              /\ worker = "idle"
              /\ pc = "done" => ret = [result |-> <<>>, err |-> ErrContentSize]
        /\ \A i \in 1..Len(parserCalls) : NUL \notin Range(parserCalls[i])
        /\ worker # "idle" => NUL \notin Range(sanitized)

\* a text with a NUL byte that would fit the limit once the byte is removed
\* has been rejected for its size
C29_Witness ==
    /\ entry = "FlattenYAMLString"
    /\ pc = "done"
    /\ Len(yamlContent) = f.MaxYAMLSize + 1
    /\ NUL \in Range(yamlContent)
    /\ ret.err = ErrContentSize
    /\ parserCalls = <<>>

\* C30: yaml.Unmarshal is never called on the empty text: a text within the
\* size limit that is empty once its NUL bytes are removed is rejected with
\* the error of an empty content and no parsing goroutine is started for it
C30_ParserNeverGetsEmptyText ==
    /\ \A i \in 1..Len(parserCalls) : parserCalls[i] # EmptyString
    /\ (/\ entry = "FlattenYAMLString"
        /\ Len(yamlContent) <= f.MaxYAMLSize
        /\ sanitizeYAMLContent(yamlContent) = EmptyString) =>
            /\ worker = "idle"
            /\ pc = "done" => ret = [result |-> <<>>, err |-> ErrEmptyContent]

====
